---- MODULE Spec2Model ----
(***************************************************************************)
(* Model of the comparison engine of dis-search-test-bed: the pairwise     *)
(* statistics calculator (shared/comparison, calculator), the report       *)
(* formatter (shared/comparison/formatter.go) and averageScore             *)
(* (shared/queryexec/runner.go).                                           *)
(*                                                                         *)
(* A SearchResult is the record [Rank, URI, Score]; the display-only       *)
(* strings (Title, Date, ContentType) never decide a branch and are left   *)
(* out.  A float64 quotient is kept exact as a reduced fraction            *)
(* [num, den]; den = 0 stands for the non-finite values (NaN, +Inf) that   *)
(* Go's float division by zero produces.                                   *)
(***************************************************************************)
EXTENDS Integers, Sequences, FiniteSets, TLC

\* ------------------------------------------------------------------ bounds

\* Longest result list drawn as an input.
MaxLen == 3

\* Largest score drawn for an input of averageScore.
MaxScore == 2

\* Longest result list of a run handed to the formatter.
MaxShown == 2

\* Largest number of queries in each of the two runs of a historical report.
MaxPairs == 2

\* Largest number of queries in the run of a cross-query report.
MaxQueries == 3

\* The most algorithms of a query configuration, and the most searches that
\* fail in one run.
MaxAlgorithms == 2
MaxFailed == 1

\* The latest write of a report that is made to fail.
MaxFailAt == 40

\* The most calls made on one calculator.
MaxCalls == 3

\* The longest string of a stored index and the most documents in it.
MaxChars == 2
MaxDocs == 2

\* How many of the terminal's latest outputs are kept.
MaxOutput == 3

\* The document identities drawn for inputs.
URIs == {"/a", "/b", "/c"}

\* ------------------------------------------------------------- data model

SeqsUpTo(S, n) == UNION {[1..k -> S] : k \in 0..n}

\* models.SearchResult
SearchResult(rank, uri, score) == [Rank |-> rank, URI |-> uri, Score |-> score]

\* Executor.Execute: hit i (0-based) becomes the result of rank i+1.
ExecuteResults(uris, scores) ==
    [i \in 1..Len(uris) |-> SearchResult(i, uris[i], scores[i])]

\* models.QueryResults
QueryResults(query, algorithm, description, results) ==
    [Query |-> query, Algorithm |-> algorithm, Description |-> description,
     Results |-> results]

ZeroScores(n) == [i \in 1..n |-> 0]

\* The result lists drawn as inputs of the calculator: every uri sequence
\* up to MaxLen, uris may repeat, ranks as the executor assigns them.
ResultLists == {ExecuteResults(us, ZeroScores(Len(us))) : us \in SeqsUpTo(URIs, MaxLen)}

\* ------------------------------------------------------------ arithmetic

Abs(x) == IF x < 0 THEN -x ELSE x

Min(a, b) == IF a < b THEN a ELSE b

RECURSIVE GCD(_, _)
GCD(a, b) == IF b = 0 THEN a ELSE GCD(b, a % b)

\* float64(n) / float64(d) for integers n >= 0, d >= 0.  Go does not panic on
\* a float division by zero: 0/0 is NaN and n/0 is +Inf, both kept as den = 0.
FloatDiv(n, d) ==
    IF d = 0 THEN [num |-> IF n = 0 THEN 0 ELSE 1, den |-> 0]
    ELSE LET g == GCD(n, d) IN [num |-> n \div g, den |-> d \div g]

\* The zero value of a float64 field.
FloatZero == [num |-> 0, den |-> 1]

IsFinite(f) == f.den # 0

\* ------------------------------------------------------------ uri lookups

\* makeURIMap, and the inline prevMap / q1Map / q2Map loops of the calculator:
\* the results are written to the map in list order, so a later result
\* overwrites an earlier one of the same uri.
\* A lookup that keeps the first result of a uri.
RECURSIVE makeURIMapFirstWins(_)
makeURIMapFirstWins(results) ==
    IF results = <<>> THEN [u \in {} |-> SearchResult(0, "", 0)]
    ELSE LET n == Len(results)
             m == makeURIMapFirstWins(SubSeq(results, 1, n - 1))
             r == results[n]
         IN [u \in (DOMAIN m) \cup {r.URI} |-> IF u \in DOMAIN m THEN m[u] ELSE r]

RECURSIVE makeURIMap(_)
makeURIMap(results) ==
    IF results = <<>> THEN [u \in {} |-> SearchResult(0, "", 0)]
    ELSE LET n == Len(results)
             m == makeURIMap(SubSeq(results, 1, n - 1))
             r == results[n]
         IN [u \in (DOMAIN m) \cup {r.URI} |-> IF u = r.URI THEN r ELSE m[u]]

\* makeURISet, and the currURIs map of CalculateHistorical once its loop over
\* curr.Results has ended: the uris of the whole list.
makeURISet(results) == {results[i].URI : i \in DOMAIN results}

\* ---------------------------------------------------------- the calculator

\* The zero ComparisonStats with TotalResults set, as CalculateHistorical
\* starts; total is the local totalRankChange.
HistStart(curr) ==
    [TotalResults |-> Len(curr.Results), NewResults |-> 0, RemovedCount |-> 0,
     ImprovedCount |-> 0, WorsedCount |-> 0, UnchangedCount |-> 0, total |-> 0]

\* HistStep without its final else: a result that kept its rank is counted
\* in no class.
HistStepNoUnchanged(acc, r, prevMap) ==
    IF r.URI \in DOMAIN prevMap
    THEN LET rankChange == prevMap[r.URI].Rank - r.Rank
             a == [acc EXCEPT !.total = @ + Abs(rankChange)]
         IN IF rankChange > 0 THEN [a EXCEPT !.ImprovedCount = @ + 1]
            ELSE IF rankChange < 0 THEN [a EXCEPT !.WorsedCount = @ + 1]
            ELSE a
    ELSE [acc EXCEPT !.NewResults = @ + 1]

\* HistStep with the rank change taken the other way round
\* (current.rank - previous.rank).
HistStepFlipped(acc, r, prevMap) ==
    IF r.URI \in DOMAIN prevMap
    THEN LET rankChange == r.Rank - prevMap[r.URI].Rank
             a == [acc EXCEPT !.total = @ + Abs(rankChange)]
         IN IF rankChange > 0 THEN [a EXCEPT !.ImprovedCount = @ + 1]
            ELSE IF rankChange < 0 THEN [a EXCEPT !.WorsedCount = @ + 1]
            ELSE [a EXCEPT !.UnchangedCount = @ + 1]
    ELSE [acc EXCEPT !.NewResults = @ + 1]

\* HistStep that takes a result that kept its rank for an improved one
\* (rankChange >= 0).
HistStepZeroImproved(acc, r, prevMap) ==
    IF r.URI \in DOMAIN prevMap
    THEN LET rankChange == prevMap[r.URI].Rank - r.Rank
             a == [acc EXCEPT !.total = @ + Abs(rankChange)]
         IN IF rankChange >= 0 THEN [a EXCEPT !.ImprovedCount = @ + 1]
            ELSE [a EXCEPT !.WorsedCount = @ + 1]
    ELSE [acc EXCEPT !.NewResults = @ + 1]

\* One iteration of the loop over curr.Results.
HistStep(acc, r, prevMap) ==
    IF r.URI \in DOMAIN prevMap
    THEN LET rankChange == prevMap[r.URI].Rank - r.Rank
             a == [acc EXCEPT !.total = @ + Abs(rankChange)]
         IN IF rankChange > 0 THEN [a EXCEPT !.ImprovedCount = @ + 1]
            ELSE IF rankChange < 0 THEN [a EXCEPT !.WorsedCount = @ + 1]
            ELSE [a EXCEPT !.UnchangedCount = @ + 1]
    ELSE [acc EXCEPT !.NewResults = @ + 1]

\* The loop over curr.Results, from item i on.
RECURSIVE HistLoop(_, _, _, _)
HistLoop(acc, results, i, prevMap) ==
    IF i > Len(results) THEN acc
    ELSE HistLoop(HistStep(acc, results[i], prevMap), results, i + 1, prevMap)

\* RemovedLoop ranging over the lookup map of prev instead of prev.Results:
\* a removed uri is counted once however often it occurs.
RemovedLoopOverMap(results, i, currURIs) ==
    Cardinality({results[k].URI : k \in i..Len(results)} \ currURIs)

\* The loop over prev.Results counting the removed items, from item i on.
RECURSIVE RemovedLoop(_, _, _)
RemovedLoop(results, i, currURIs) ==
    IF i > Len(results) THEN 0
    ELSE (IF results[i].URI \in currURIs THEN 0 ELSE 1)
         + RemovedLoop(results, i + 1, currURIs)

\* HistAvg without the guard on an empty current list.
HistAvgUnguarded(total, curr) == FloatDiv(total, Len(curr.Results))

\* AvgRankChange: stays at its zero value unless curr has results, and is then
\* the total divided by the number of current results.
HistAvg(total, curr) ==
    IF Len(curr.Results) > 0 THEN FloatDiv(total, Len(curr.Results)) ELSE FloatZero

\* Calculator.CalculateHistorical
CalculateHistorical(curr, prev) ==
    LET prevMap == makeURIMap(prev.Results)
        acc == HistLoop(HistStart(curr), curr.Results, 1, prevMap)
    IN [Query |-> curr.Query, Algorithm |-> curr.Algorithm,
        TotalResults |-> acc.TotalResults,
        NewResults |-> acc.NewResults,
        RemovedCount |-> RemovedLoop(prev.Results, 1, makeURISet(curr.Results)),
        ImprovedCount |-> acc.ImprovedCount,
        WorsedCount |-> acc.WorsedCount,
        UnchangedCount |-> acc.UnchangedCount,
        AvgRankChange |-> HistAvg(acc.total, curr)]

CrossStart == [CommonResults |-> 0, OnlyInQuery1 |-> 0, RankingDiffCount |-> 0, total |-> 0]

\* An iteration that adds the signed difference of the ranks.
CrossStepSigned(acc, r1, q2Map) ==
    IF r1.URI \in DOMAIN q2Map
    THEN LET r2 == q2Map[r1.URI]
             a == [acc EXCEPT !.CommonResults = @ + 1]
         IN IF r1.Rank # r2.Rank
            THEN [a EXCEPT !.total = @ + (r1.Rank - r2.Rank), !.RankingDiffCount = @ + 1]
            ELSE a
    ELSE [acc EXCEPT !.OnlyInQuery1 = @ + 1]

\* An iteration that counts a common result under OnlyInQuery1 as well.
CrossStepCountsTwice(acc, r1, q2Map) ==
    IF r1.URI \in DOMAIN q2Map
    THEN [acc EXCEPT !.CommonResults = @ + 1, !.OnlyInQuery1 = @ + 1]
    ELSE [acc EXCEPT !.OnlyInQuery1 = @ + 1]

\* One iteration of the loop over q1.Results; total is the local totalRankDiff.
CrossStep(acc, r1, q2Map) ==
    IF r1.URI \in DOMAIN q2Map
    THEN LET r2 == q2Map[r1.URI]
             a == [acc EXCEPT !.CommonResults = @ + 1]
         IN IF r1.Rank # r2.Rank
            THEN [a EXCEPT !.total = @ + Abs(r1.Rank - r2.Rank),
                           !.RankingDiffCount = @ + 1]
            ELSE a
    ELSE [acc EXCEPT !.OnlyInQuery1 = @ + 1]

RECURSIVE CrossLoop(_, _, _, _)
CrossLoop(acc, results, i, q2Map) ==
    IF i > Len(results) THEN acc
    ELSE CrossLoop(CrossStep(acc, results[i], q2Map), results, i + 1, q2Map)

\* The loop over q2.Results counting the results absent from q1Map.
RECURSIVE OnlyIn2Loop(_, _, _)
OnlyIn2Loop(results, i, q1Map) ==
    IF i > Len(results) THEN 0
    ELSE (IF results[i].URI \in DOMAIN q1Map THEN 0 ELSE 1)
         + OnlyIn2Loop(results, i + 1, q1Map)

\* AvgRankingDiff: divided only when some common result differs in rank.
CrossAvg(total, count) ==
    IF count > 0 THEN FloatDiv(total, count) ELSE FloatZero

\* Calculator.CalculateCrossQuery
CalculateCrossQuery(q1, q2) ==
    LET q1Map == makeURIMap(q1.Results)
        q2Map == makeURIMap(q2.Results)
        acc == CrossLoop(CrossStart, q1.Results, 1, q2Map)
    IN [Query1Name |-> q1.Query, Query2Name |-> q2.Query,
        CommonResults |-> acc.CommonResults,
        OnlyInQuery1 |-> acc.OnlyInQuery1,
        OnlyInQuery2 |-> OnlyIn2Loop(q2.Results, 1, q1Map),
        RankingDiffCount |-> acc.RankingDiffCount,
        AvgRankingDiff |-> CrossAvg(acc.total, acc.RankingDiffCount)]

\* An access of a call to the backing array of one of the two result lists
\* it was handed (list 1 or 2): the element at that index is read, or the
\* value is stored there.  The QueryResults are passed by value, but the
\* copy of a slice shares its backing array with the caller's slice.
Read(list, i, r) == [kind |-> "read", list |-> list, index |-> i, value |-> r]
Store(list, i, r) == [kind |-> "store", list |-> list, index |-> i, value |-> r]

\* A loop that ranks the results anew as it ranges over them:
\* "for i := range q.Results { q.Results[i].Rank = i + 1 }" read from the
\* end of the list.
rangeRenumbering(list, q) ==
    [i \in DOMAIN q.Results |->
        Store(list, i, [q.Results[i] EXCEPT !.Rank = Len(q.Results) + 1 - i])]

\* "for _, r := range q.Results": each element is read in turn and copied
\* into r; what the body does with r does not reach the array.
range(list, q) == [i \in DOMAIN q.Results |-> Read(list, i, q.Results[i])]

\* The accesses of CalculateHistorical(curr, prev), in program order: the
\* loop that fills prevMap, the loop over curr.Results, the loop that counts
\* the removed results.  len(curr.Results) reads the slice header only.
HistoricalAccesses(curr, prev) == range(2, prev) \o range(1, curr) \o range(2, prev)

\* The accesses of CalculateCrossQuery(q1, q2): the loops that fill q1Map
\* and q2Map, the loop over q1.Results, the loop over q2.Results.
CrossQueryAccesses(q1, q2) ==
    range(1, q1) \o range(2, q2) \o range(1, q1) \o range(2, q2)

\* What the accesses of a call leave in the two lists it was handed.
RECURSIVE LeftByCall(_, _)
LeftByCall(lists, accesses) ==
    IF accesses = <<>> THEN lists
    ELSE LeftByCall(IF Head(accesses).kind = "store"
                    THEN [lists EXCEPT ![Head(accesses).list].Results[Head(accesses).index] =
                                           Head(accesses).value]
                    ELSE lists,
                    Tail(accesses))

\* One call on a calculator, as the caller sees it: the method, the two
\* lists as handed over and as they are once the call has returned, and the
\* stats returned.  The Calculator has no field and the package no
\* variable: the call reads nothing but its arguments.
CalculatorCall(op, q1, q2) ==
    [op |-> op, given |-> <<q1, q2>>,
     left |-> LeftByCall(<<q1, q2>>,
                         IF op = "CalculateHistorical" THEN HistoricalAccesses(q1, q2)
                         ELSE CrossQueryAccesses(q1, q2)),
     stats |-> IF op = "CalculateHistorical" THEN CalculateHistorical(q1, q2)
               ELSE CalculateCrossQuery(q1, q2)]

\* ------------------------------------------------------------ averageScore

RECURSIVE SumScores(_, _)
SumScores(results, i) ==
    IF i > Len(results) THEN 0 ELSE results[i].Score + SumScores(results, i + 1)

\* averageScore (queryexec/runner.go)
averageScore(results) ==
    IF Len(results) = 0 THEN FloatZero
    ELSE FloatDiv(SumScores(results, 1), Len(results))

\* ------------------------------------------------------ running the queries

\* A Go map: the nil map, or its entries; a key without entry and a key
\* whose value is nil both read as nil.  A value of the map is kept as the
\* one-element sequence of what it holds, nil as the empty one.
Nil == <<>>
NilMap == [nil |-> TRUE, entries |-> <<>>]
MapOf(entries) == [nil |-> FALSE, entries |-> entries]
MapGet(m, key) == IF key \in DOMAIN m.entries THEN m.entries[key] ELSE Nil

\* m[key] = value: a write to the nil map panics.
MapSet(m, key, value) ==
    IF m.nil THEN [map |-> m, panic |-> "assignment to entry in nil map"]
    ELSE [map |-> [m EXCEPT !.entries = (key :> value) @@ @], panic |-> ""]

\* models.QueryConfig and models.AlgorithmConfig, as far as the runner reads
\* them.  ESQuery is a map, which the copies of a QueryConfig share.
QueryConfig(query, description, esQuery) ==
    [Query |-> query, Description |-> description, ESQuery |-> esQuery]
AlgorithmConfig(name, queries) == [Name |-> name, Queries |-> queries]

\* The size Execute asks for when the query names none.
DefaultSize == 20

\* query := qc.ESQuery; if query["size"] == nil { query["size"] = 20 }
WithSize(query) ==
    IF MapGet(query, "size") = Nil THEN MapSet(query, "size", <<DefaultSize>>)
    ELSE [map |-> query, panic |-> ""]

\* Executor.Execute: ESQuery gets its size, which panics on a nil map; then
\* the error of a failed search, or the QueryResults of the hits under the
\* query text, the algorithm name and the description.  query is ESQuery as
\* the call leaves it.
Execute(qc, algorithm, searchFails, hits) ==
    LET sized == WithSize(qc.ESQuery)
    IN IF sized.panic # ""
       THEN [err |-> "", panic |-> sized.panic, query |-> sized.map,
             result |-> QueryResults("", "", "", <<>>)]
       ELSE IF searchFails
       THEN [err |-> "execute search", panic |-> "", query |-> sized.map,
             result |-> QueryResults("", "", "", <<>>)]
       ELSE [err |-> "", panic |-> "", query |-> sized.map,
             result |-> QueryResults(qc.Query, algorithm, qc.Description,
                                     ExecuteResults(hits, ZeroScores(Len(hits))))]

\* RunAlgorithms so far: the results appended, the configuration as the
\* calls of Execute have left it, and the panic that ended the run, if any.
Running(allResults, algorithms, panic) ==
    [allResults |-> allResults, algorithms |-> algorithms, panic |-> panic]

\* One pass of the inner loop: Execute of query q of algorithm a.
RunQuery(run, a, q, e) ==
    Running(IF e.err # "" \/ e.panic # "" THEN run.allResults
            ELSE Append(run.allResults, e.result),
            [run.algorithms EXCEPT ![a].Queries[q].ESQuery = e.query],
            e.panic)

\* The inner loop of RunAlgorithms over the queries of algorithm a, from
\* query q on: a query whose search fails is reported and skipped, the
\* result of every other one is appended.  failing holds the pairs
\* <<algorithm index, query index>> whose search fails.
RECURSIVE RunQueries(_, _, _, _, _)
RunQueries(run, a, q, failing, hits) ==
    IF run.panic # "" \/ q > Len(run.algorithms[a].Queries) THEN run
    ELSE RunQueries(RunQuery(run, a, q,
                             Execute(run.algorithms[a].Queries[q], run.algorithms[a].Name,
                                     <<a, q>> \in failing, hits)),
                    a, q + 1, failing, hits)

\* The outer loop of RunAlgorithms, from algorithm a on.
RECURSIVE RunAlgorithmsLoop(_, _, _, _)
RunAlgorithmsLoop(run, a, failing, hits) ==
    IF run.panic # "" \/ a > Len(run.algorithms) THEN run
    ELSE RunAlgorithmsLoop(RunQueries(run, a, 1, failing, hits), a + 1, failing, hits)

\* Runner.RunAlgorithms
RunAlgorithms(algorithms, failing, hits) ==
    RunAlgorithmsLoop(Running(<<>>, algorithms, ""), 1, failing, hits)

\* ------------------------------------------------------------ the formatter

\* comparison.Options
Options(showUnchanged, highlightNew, showScores, maxRankDisplay) ==
    [ShowUnchanged |-> showUnchanged, HighlightNew |-> highlightNew,
     ShowScores |-> showScores, MaxRankDisplay |-> maxRankDisplay]

\* One formatted write: what a single writef call hands to the writer.  kind
\* names the format string, s its string argument (a uri, a query text), n its
\* integer arguments.  sec is an annotation, not part of the text: the indices
\* (i, j) of the pair whose section the formatter was writing (<<0, 0>>
\* outside every pair section).
Line(kind, s, n) == [kind |-> kind, s |-> s, n |-> n, sec |-> <<0, 0>>]

\* The formatter with its writer: the lines written so far, the number of
\* writes attempted, the write that fails (0: none does, as for the
\* bytes.Buffer of Comparison.Generate), and the error returned ("" is nil).
NewFormatter(options, failAt) ==
    [options |-> options, out |-> <<>>, writes |-> 0, failAt |-> failAt,
     err |-> "", sec |-> <<0, 0>>]

Failed(f) == f.err # ""

InSection(f, i, j) == [f EXCEPT !.sec = <<i, j>>]

\* Formatter.writef
writef(f, line) ==
    IF f.writes + 1 = f.failAt
    THEN [f EXCEPT !.writes = @ + 1, !.err = "write"]
    ELSE [f EXCEPT !.writes = @ + 1, !.out = Append(@, [line EXCEPT !.sec = f.sec])]

\* Consecutive writes none of which looks at the error of the one before.
RECURSIVE WriteAllThrough(_, _)
WriteAllThrough(f, lines) ==
    IF lines = <<>> THEN f ELSE WriteAllThrough(writef(f, Head(lines)), Tail(lines))

\* Consecutive statements "if err := f.writef(...); err != nil { return ... }":
\* the lines are written in order and the first failure returns.
RECURSIVE WriteAll(_, _)
WriteAll(f, lines) ==
    IF lines = <<>> THEN f
    ELSE LET g == writef(f, Head(lines))
         IN IF Failed(g) THEN g ELSE WriteAll(g, Tail(lines))

\* Formatter.writeQueryHeader
writeQueryHeader(f, query) ==
    WriteAll(f, <<Line("separator", "", <<>>),
                  Line("Query", query.Query, <<>>),
                  Line("Algorithm", query.Algorithm, <<>>)>>
                \o (IF query.Description # ""
                    THEN <<Line("Description", query.Description, <<>>)>> ELSE <<>>)
                \o <<Line("separator", "", <<>>)>>)

\* Formatter.writeStats
writeStats(f, stats) ==
    WriteAll(f, <<Line("Statistics", "", <<>>),
                  Line("Total Results", "", <<stats.TotalResults>>),
                  Line("New|Removed", "", <<stats.NewResults, stats.RemovedCount>>),
                  Line("Improved|Worsened|Unchanged", "",
                       <<stats.ImprovedCount, stats.WorsedCount, stats.UnchangedCount>>),
                  Line("Avg Rank Change", "",
                       <<stats.AvgRankChange.num, stats.AvgRankChange.den>>)>>)

\* Formatter.determineRankingChange
determineRankingChange(curr, prevMap) ==
    LET change == [Rank |-> curr.Rank, URI |-> curr.URI, Score |-> curr.Score,
                   IsNew |-> FALSE, IsUnchanged |-> FALSE, PrevRank |-> 0, PrevScore |-> 0]
    IN IF curr.URI \notin DOMAIN prevMap THEN [change EXCEPT !.IsNew = TRUE]
       ELSE LET prev == prevMap[curr.URI]
            IN IF prev.Rank = curr.Rank
               THEN [change EXCEPT !.IsUnchanged = TRUE, !.PrevScore = prev.Score]
               ELSE [change EXCEPT !.PrevRank = prev.Rank, !.PrevScore = prev.Score]

\* Formatter.writeNewResult
writeNewResult(f, change) ==
    WriteAll(f, <<Line(IF f.options.HighlightNew THEN "row new highlighted" ELSE "row new",
                       "", <<change.Rank>>)>>
                \o (IF f.options.ShowScores
                    THEN <<Line("score", "", <<change.Score>>)>> ELSE <<>>)
                \o <<Line("URI", change.URI, <<>>)>>)

\* math.Abs(scoreDiff) > 0.0001
ScoreDrifted(scoreDiff) == Abs(scoreDiff) * 10000 > 1

\* Formatter.writeUnchangedResult
writeUnchangedResult(f, change) ==
    IF ~f.options.ShowUnchanged THEN f
    ELSE WriteAll(f, <<Line("row unchanged", "", <<change.Rank>>)>>
                     \o (IF f.options.ShowScores /\ ScoreDrifted(change.Score - change.PrevScore)
                         THEN <<Line("score", "", <<change.PrevScore, change.Score>>)>>
                         ELSE <<>>)
                     \o <<Line("newline", "", <<>>)>>)

\* Formatter.getRankChangeIndicators
getRankChangeIndicators(rankDiff) == IF rankDiff > 0 THEN "up" ELSE "down"

\* Formatter.writeImprovedOrWorsenedResult
writeImprovedOrWorsenedResult(f, change) ==
    LET rankDiff == change.PrevRank - change.Rank
    IN WriteAll(f, <<Line("row " \o getRankChangeIndicators(rankDiff), "",
                          <<Abs(rankDiff), change.Rank, change.PrevRank>>)>>
                   \o (IF f.options.ShowScores
                       THEN <<Line("score", "", <<change.PrevScore, change.Score>>)>>
                       ELSE <<>>)
                   \o <<Line("URI", change.URI, <<>>)>>)

\* Formatter.writeRankingChangeRow
writeRankingChangeRow(f, change) ==
    IF change.IsNew THEN writeNewResult(f, change)
    ELSE IF change.IsUnchanged THEN writeUnchangedResult(f, change)
    ELSE writeImprovedOrWorsenedResult(f, change)

\* A displayCount that ignores MaxRankDisplay.
DisplayCountUncapped(options, results) == Len(results)

\* displayCount of writeRankingChanges and writeCrossQueryResults: the length
\* of the list, cut to MaxRankDisplay when that is positive and smaller.
DisplayCount(options, results) ==
    IF options.MaxRankDisplay > 0 /\ options.MaxRankDisplay < Len(results)
    THEN options.MaxRankDisplay
    ELSE Len(results)

\* The row loop of writeRankingChanges, from item i on.
RECURSIVE RankingRowsLoop(_, _, _, _, _)
RankingRowsLoop(f, results, i, displayCount, prevMap) ==
    IF i > displayCount THEN f
    ELSE LET g == writeRankingChangeRow(f, determineRankingChange(results[i], prevMap))
         IN IF Failed(g) THEN g
            ELSE RankingRowsLoop(g, results, i + 1, displayCount, prevMap)

\* Formatter.writeRankingChanges
writeRankingChanges(f, curr, prev) ==
    LET prevMap == makeURIMap(prev.Results)
        displayCount == DisplayCount(f.options, curr.Results)
        g == writef(f, Line("--- Ranking Changes ---", "", <<>>))
    IN IF Failed(g) THEN g
       ELSE RankingRowsLoop(g, curr.Results, 1, displayCount, prevMap)

\* Formatter.writeRemovedResult
writeRemovedResult(f, result) ==
    WriteAll(f, <<Line("row removed", "", <<result.Rank>>)>>
                \o (IF f.options.ShowScores
                    THEN <<Line("score", "", <<result.Score>>)>> ELSE <<>>)
                \o <<Line("URI", result.URI, <<>>)>>)

\* The loop of writeRemovedResults over prev.Results, from item i on;
\* removedCount counts the rows written so far.
RECURSIVE RemovedRowsLoop(_, _, _, _, _)
RemovedRowsLoop(f, results, i, currURIs, removedCount) ==
    IF i > Len(results)
    THEN WriteAll(f, (IF removedCount = 0 THEN <<Line("None", "", <<>>)>> ELSE <<>>)
                     \o <<Line("newline", "", <<>>)>>)
    ELSE IF results[i].URI \notin currURIs
         THEN LET g == writeRemovedResult(f, results[i])
              IN IF Failed(g) THEN g
                 ELSE RemovedRowsLoop(g, results, i + 1, currURIs, removedCount + 1)
         ELSE RemovedRowsLoop(f, results, i + 1, currURIs, removedCount)

\* A baseline of the displayed current items only, as built inside the
\* display loop of the legacy generateHistoricalDiff.
RemovedBaselineDisplayed(f, curr) ==
    makeURISet(SubSeq(curr.Results, 1, DisplayCount(f.options, curr.Results)))

\* The uri set writeRemovedResults tests the previous items against.
RemovedBaseline(f, curr) == makeURISet(curr.Results)

\* Formatter.writeRemovedResults
writeRemovedResults(f, curr, prev) ==
    LET currURIs == RemovedBaseline(f, curr)
        g == writef(f, Line("--- Removed from Results ---", "", <<>>))
    IN IF Failed(g) THEN g
       ELSE RemovedRowsLoop(g, prev.Results, 1, currURIs, 0)

\* The totals loop of writeSummary, from index i on: the stats of every
\* index-aligned pair are added up, an index without a previous is skipped.
RECURSIVE SummaryTotals(_, _, _)
SummaryTotals(current, previous, i) ==
    IF i > Len(current)
    THEN [totalNew |-> 0, totalRemoved |-> 0, totalImproved |-> 0, totalWorsened |-> 0]
    ELSE LET rest == SummaryTotals(current, previous, i + 1)
         IN IF i > Len(previous) THEN rest
            ELSE LET stats == CalculateHistorical(current[i], previous[i])
                 IN [totalNew |-> rest.totalNew + stats.NewResults,
                     totalRemoved |-> rest.totalRemoved + stats.RemovedCount,
                     totalImproved |-> rest.totalImproved + stats.ImprovedCount,
                     totalWorsened |-> rest.totalWorsened + stats.WorsedCount]

\* Formatter.writeSummary
writeSummary(f, current, previous) ==
    LET t == SummaryTotals(current, previous, 1)
    IN WriteAll(f, <<Line("separator", "", <<>>),
                     Line("Historical Comparison Summary", "", <<>>),
                     Line("separator", "", <<>>),
                     Line("Total queries compared", "", <<Len(current)>>),
                     Line("Total new results", "", <<t.totalNew>>),
                     Line("Total removed results", "", <<t.totalRemoved>>),
                     Line("Total improved rankings", "", <<t.totalImproved>>),
                     Line("Total worsened rankings", "", <<t.totalWorsened>>)>>)

\* The body of FormatHistorical's loop for an index that has a previous.
FormatPair(f, curr, prev) ==
    LET stats == CalculateHistorical(curr, prev)
        f1 == writeQueryHeader(f, curr)
    IN IF Failed(f1) THEN f1 ELSE
       LET f2 == writeStats(f1, stats)
       IN IF Failed(f2) THEN f2 ELSE
       LET f3 == writef(f2, Line("newline", "", <<>>))
       IN IF Failed(f3) THEN f3 ELSE
       LET f4 == writeRankingChanges(f3, curr, prev)
       IN IF Failed(f4) THEN f4 ELSE
       writeRemovedResults(f4, curr, prev)

\* A loop body that passes over an index without a previous in silence.
HistoricalStepSilent(f, current, previous, i) ==
    IF i > Len(previous) THEN f ELSE FormatPair(f, current[i], previous[i])

\* The body of FormatHistorical's loop for index i: the informational line
\* for an index past the end of previous, the pair's section otherwise.
HistoricalStep(f, current, previous, i) ==
    IF i > Len(previous)
    THEN writef(f, Line("[INFO] not in previous", "", <<i>>))
    ELSE FormatPair(f, current[i], previous[i])

\* FormatHistorical's loop over current, from index i on.
RECURSIVE HistoricalLoop(_, _, _, _)
HistoricalLoop(f, current, previous, i) ==
    IF i > Len(current) THEN InSection(f, 0, 0)
    ELSE LET g == HistoricalStep(InSection(f, i, i), current, previous, i)
         IN IF Failed(g) THEN g ELSE HistoricalLoop(g, current, previous, i + 1)

\* Formatter.FormatHistorical
FormatHistorical(f, current, previous) ==
    IF Len(current) = 0 THEN [f EXCEPT !.err = "no current results to format"]
    ELSE LET f1 == WriteAll(f, <<Line("Generated", "", <<>>), Line("separator", "", <<>>)>>)
         IN IF Failed(f1) THEN f1 ELSE
         LET f2 == HistoricalLoop(f1, current, previous, 1)
         IN IF Failed(f2) THEN f2 ELSE
         writeSummary(f2, current, previous)

\* Formatter.writeCrossQueryHeader
writeCrossQueryHeader(f, q1, q2) ==
    WriteAll(f, <<Line("separator", "", <<>>),
                  Line("Query Comparison", "", <<>>),
                  Line("separator", "", <<>>),
                  Line("Query 1", q1.Query \o " (" \o q1.Algorithm \o ")", <<>>),
                  Line("Query 2", q2.Query \o " (" \o q2.Algorithm \o ")", <<>>),
                  Line("dashes", "", <<>>)>>)

\* Formatter.writeCrossQueryStats
writeCrossQueryStats(f, stats) ==
    WriteAll(f, <<Line("Statistics", "", <<>>),
                  Line("Common Results", "", <<stats.CommonResults>>),
                  Line("Only in Query 1", "", <<stats.OnlyInQuery1>>),
                  Line("Only in Query 2", "", <<stats.OnlyInQuery2>>),
                  Line("Ranking Differences", "", <<stats.RankingDiffCount>>)>>
                \o (IF stats.RankingDiffCount > 0
                    THEN <<Line("Avg Ranking Difference", "",
                                <<stats.AvgRankingDiff.num, stats.AvgRankingDiff.den>>)>>
                    ELSE <<>>))

\* Formatter.writeCrossQueryResult
writeCrossQueryResult(f, r) ==
    WriteAll(f, <<Line("row only in 1", "", <<r.Rank>>)>>
                \o (IF f.options.ShowScores THEN <<Line("score", "", <<r.Score>>)>> ELSE <<>>)
                \o <<Line("URI", r.URI, <<>>)>>)

\* The "None" line of an empty subsection and the newline that ends it.
EndSubsection(f, rows) ==
    WriteAll(f, (IF rows = 0 THEN <<Line("None", "", <<>>)>> ELSE <<>>)
                \o <<Line("newline", "", <<>>)>>)

\* The loop of writeOnlyInQuery1Results, from item i on.
RECURSIVE OnlyIn1RowsLoop(_, _, _, _, _, _)
OnlyIn1RowsLoop(f, results, i, displayCount, q2Map, onlyInQ1) ==
    IF ~(i <= displayCount /\ i <= Len(results)) THEN EndSubsection(f, onlyInQ1)
    ELSE IF results[i].URI \notin DOMAIN q2Map
         THEN LET g == writeCrossQueryResult(f, results[i])
              IN IF Failed(g) THEN g
                 ELSE OnlyIn1RowsLoop(g, results, i + 1, displayCount, q2Map, onlyInQ1 + 1)
         ELSE OnlyIn1RowsLoop(f, results, i + 1, displayCount, q2Map, onlyInQ1)

\* Formatter.writeOnlyInQuery1Results
writeOnlyInQuery1Results(f, q1, q2Map, displayCount) ==
    LET g == writef(f, Line("--- Results Only in Query 1 ---", "", <<>>))
    IN IF Failed(g) THEN g
       ELSE OnlyIn1RowsLoop(g, q1.Results, 1, displayCount, q2Map, 0)

\* The loop of writeOnlyInQuery2Results, from item i on.
RECURSIVE OnlyIn2RowsLoop(_, _, _, _, _, _)
OnlyIn2RowsLoop(f, results, i, displayCount, q1Map, onlyInQ2) ==
    IF ~(i <= displayCount /\ i <= Len(results)) THEN EndSubsection(f, onlyInQ2)
    ELSE IF results[i].URI \notin DOMAIN q1Map
         THEN LET g == WriteAll(f, <<Line("row only in 2", "", <<results[i].Rank>>)>>
                                   \o (IF f.options.ShowScores
                                       THEN <<Line("score", "", <<results[i].Score>>)>>
                                       ELSE <<>>)
                                   \o <<Line("URI", results[i].URI, <<>>)>>)
              IN IF Failed(g) THEN g
                 ELSE OnlyIn2RowsLoop(g, results, i + 1, displayCount, q1Map, onlyInQ2 + 1)
         ELSE OnlyIn2RowsLoop(f, results, i + 1, displayCount, q1Map, onlyInQ2)

\* Formatter.writeOnlyInQuery2Results
writeOnlyInQuery2Results(f, q2, q1Map, displayCount) ==
    LET g == writef(f, Line("--- Results Only in Query 2 ---", "", <<>>))
    IN IF Failed(g) THEN g
       ELSE OnlyIn2RowsLoop(g, q2.Results, 1, displayCount, q1Map, 0)

\* Formatter.writeCrossQueryRankingDifference
writeCrossQueryRankingDifference(f, r1, r2) ==
    LET change == r1.Rank - r2.Rank
    IN WriteAll(f, <<Line("row diff " \o getRankChangeIndicators(change), "", <<Abs(change)>>),
                     Line("Query 1 | Query 2", "", <<r1.Rank, r2.Rank>>)>>
                   \o (IF f.options.ShowScores
                       THEN <<Line("score", "", <<r1.Score, r2.Score>>)>> ELSE <<>>)
                   \o <<Line("URI", r1.URI, <<>>)>>)

\* The loop of writeCrossQueryRankingDifferences, from item i on.
RECURSIVE RankingDiffRowsLoop(_, _, _, _, _, _)
RankingDiffRowsLoop(f, results, i, displayCount, q2Map, hasDifferences) ==
    IF ~(i <= displayCount /\ i <= Len(results))
    THEN EndSubsection(f, IF hasDifferences THEN 1 ELSE 0)
    ELSE IF results[i].URI \notin DOMAIN q2Map
            \/ results[i].Rank = q2Map[results[i].URI].Rank
         THEN RankingDiffRowsLoop(f, results, i + 1, displayCount, q2Map, hasDifferences)
         ELSE LET g == writeCrossQueryRankingDifference(f, results[i], q2Map[results[i].URI])
              IN IF Failed(g) THEN g
                 ELSE RankingDiffRowsLoop(g, results, i + 1, displayCount, q2Map, TRUE)

\* Formatter.writeCrossQueryRankingDifferences
writeCrossQueryRankingDifferences(f, q1, q2Map, displayCount) ==
    LET g == writef(f, Line("--- Ranking Differences for Common Results ---", "", <<>>))
    IN IF Failed(g) THEN g
       ELSE RankingDiffRowsLoop(g, q1.Results, 1, displayCount, q2Map, FALSE)

\* Formatter.writeCrossQueryResults: one displayCount, taken from q1's list,
\* is handed to all three subsections.
writeCrossQueryResults(f, q1, q2) ==
    LET q1Map == makeURIMap(q1.Results)
        q2Map == makeURIMap(q2.Results)
        displayCount == DisplayCount(f.options, q1.Results)
        f1 == writeOnlyInQuery1Results(f, q1, q2Map, displayCount)
    IN IF Failed(f1) THEN f1 ELSE
       LET f2 == writeOnlyInQuery2Results(f1, q2, q1Map, displayCount)
       IN IF Failed(f2) THEN f2 ELSE
       writeCrossQueryRankingDifferences(f2, q1, q2Map, displayCount)

\* The body of FormatCrossQuery's inner loop: the section of the pair (q1, q2).
FormatCrossPair(f, q1, q2) ==
    LET f1 == writeCrossQueryHeader(f, q1, q2)
    IN IF Failed(f1) THEN f1 ELSE
       LET f2 == writeCrossQueryStats(f1, CalculateCrossQuery(q1, q2))
       IN IF Failed(f2) THEN f2 ELSE
       LET f3 == writef(f2, Line("newline", "", <<>>))
       IN IF Failed(f3) THEN f3 ELSE
       writeCrossQueryResults(f3, q1, q2)

\* An inner loop that starts at the outer index itself.
InnerStartSelf(i) == i

\* First index of the inner loop for the outer index i (1-based): j = i + 1.
InnerStart(i) == i + 1

\* FormatCrossQuery's nested loops, from the pair (i, j) on (1-based):
\* for i := 0; i < len-1; i++ { for j := i+1; j < len; j++ { ... } }
RECURSIVE CrossPairsLoop(_, _, _, _)
CrossPairsLoop(f, queries, i, j) ==
    IF i > Len(queries) - 1 THEN InSection(f, 0, 0)
    ELSE IF j > Len(queries) THEN CrossPairsLoop(f, queries, i + 1, InnerStart(i + 1))
    ELSE LET g == FormatCrossPair(InSection(f, i, j), queries[i], queries[j])
         IN IF Failed(g) THEN g ELSE CrossPairsLoop(g, queries, i, j + 1)

\* A FormatCrossQuery that goes on to the report for any number of queries.
FormatCrossQueryUnguarded(f, queries) ==
    LET f1 == WriteAll(f, <<Line("Generated", "", <<>>), Line("separator", "", <<>>)>>)
    IN IF Failed(f1) THEN f1
       ELSE CrossPairsLoop(f1, queries, 1, InnerStart(1))

\* Formatter.FormatCrossQuery
FormatCrossQuery(f, queries) ==
    IF Len(queries) < 2
    THEN LET g == writef(f, Line("warning: need at least 2 queries", "", <<>>)) IN g
    ELSE LET f1 == WriteAll(f, <<Line("Generated", "", <<>>), Line("separator", "", <<>>)>>)
         IN IF Failed(f1) THEN f1
            ELSE CrossPairsLoop(f1, queries, 1, InnerStart(1))

\* ------------------------------------------------------------ Comparison

\* comparison.Mode
ModeHistorical == 0
ModeCrossQuery == 1
ModeBoth == 2

Modes == {ModeHistorical, ModeCrossQuery, ModeBoth}

\* NewComparison
NewComparison(current, previous, options, mode) ==
    [current |-> current, previous |-> previous, options |-> options, mode |-> mode]

\* A formatter over a buffer that already holds the lines buf.
OnBuffer(options, buf) == [NewFormatter(options, 0) EXCEPT !.out = buf]

\* generateHistorical without its test of previous.
generateHistoricalUnguarded(c, formatter) ==
    FormatHistorical(formatter, c.current, c.previous)

\* Comparison.generateHistorical
generateHistorical(c, formatter) ==
    IF Len(c.previous) = 0
    THEN [formatter EXCEPT !.err = "no previous results to compare against"]
    ELSE FormatHistorical(formatter, c.current, c.previous)

\* Comparison.generateCrossQuery
generateCrossQuery(c, formatter) == FormatCrossQuery(formatter, c.current)

\* The heading of a part of the combined report: a rule, the title, a rule.
PartHeading(title) ==
    <<Line("rule", "", <<>>), Line(title, "", <<>>), Line("rule", "", <<>>)>>

\* The separator between the two parts of the combined report.
PartDivider ==
    <<Line("blank", "", <<>>), Line("divider", "", <<>>), Line("divider", "", <<>>),
      Line("blank", "", <<>>)>>

\* A historical part that fails when there is no previous run.
BothHistoricalStrict(c, buf) ==
    generateHistorical(c, OnBuffer(c.options, buf))

\* The historical part of generateBoth, written after the lines buf: the
\* historical report when there is a previous run, a one-line statement
\* otherwise.
BothHistorical(c, buf) ==
    IF Len(c.previous) > 0
    THEN FormatHistorical(OnBuffer(c.options, buf), c.current, c.previous)
    ELSE OnBuffer(c.options,
                  buf \o <<Line("No previous results available for historical comparison.",
                                "", <<>>)>>)

\* The end of generateBoth, given the formatter h of the historical part and
\* the formatter x of the cross-query part: the first error is returned;
\* without one the buffer is handed to the main formatter's writer (the
\* result of that Write is not looked at).
BothCombined(formatter, h, x) ==
    IF Failed(h) THEN [formatter EXCEPT !.err = h.err]
    ELSE IF Failed(x) THEN [formatter EXCEPT !.err = x.err]
    ELSE [formatter EXCEPT
             !.out = @ \o h.out \o PartDivider
                       \o PartHeading("CROSS-QUERY COMPARISON") \o x.out]

\* Comparison.generateBoth: the two parts are written to a buffer of its
\* own.  The cross-query formatter appends to that buffer, which then holds
\* the historical part, the divider, the heading and what the cross-query
\* formatter wrote.
generateBoth(c, formatter) ==
    BothCombined(formatter,
                 BothHistorical(c, PartHeading("HISTORICAL COMPARISON")),
                 FormatCrossQuery(NewFormatter(c.options, 0), c.current))

\* The switch of Generate over the mode.
GenerateSwitch(c, formatter) ==
    IF c.mode = ModeHistorical THEN generateHistorical(c, formatter)
    ELSE IF c.mode = ModeCrossQuery THEN generateCrossQuery(c, formatter)
    ELSE IF c.mode = ModeBoth THEN generateBoth(c, formatter)
    ELSE [formatter EXCEPT !.err = "unknown comparison mode"]

\* What Generate returns for the formatter g its switch left: the report
\* and the error ("" is nil); buf is what the formatter's buffer holds.
Returned(g) ==
    [report |-> IF Failed(g) THEN <<>> ELSE g.out, err |-> g.err, buf |-> g.out]

\* Comparison.Generate
Generate(c) == Returned(GenerateSwitch(c, NewFormatter(c.options, 0)))

\* Comparison.modeString
modeString(c) ==
    IF c.mode = ModeHistorical THEN "Historical"
    ELSE IF c.mode = ModeCrossQuery THEN "Cross-Query"
    ELSE IF c.mode = ModeBoth THEN "Both"
    ELSE "Unknown"

\* comparison.Summary
Summary(mode, new, removed, improved, worsened) ==
    [Mode |-> mode, NewResults |-> new, RemovedResults |-> removed,
     ImprovedRankings |-> improved, WorsenedRankings |-> worsened]

\* A summary step that leaves the removed results out.
GetSummaryStepNoRemoved(summary, stats) ==
    [summary EXCEPT !.NewResults = @ + stats.NewResults,
                    !.ImprovedRankings = @ + stats.ImprovedCount,
                    !.WorsenedRankings = @ + stats.WorsedCount]

\* The body of GetSummary's loop for a pair with the statistics stats.
GetSummaryStep(summary, stats) ==
    [summary EXCEPT !.NewResults = @ + stats.NewResults,
                    !.RemovedResults = @ + stats.RemovedCount,
                    !.ImprovedRankings = @ + stats.ImprovedCount,
                    !.WorsenedRankings = @ + stats.WorsedCount]

\* GetSummary's loop over current, from index i on; an index without a
\* previous is skipped.
RECURSIVE GetSummaryLoop(_, _, _)
GetSummaryLoop(c, i, summary) ==
    IF i > Len(c.current) THEN summary
    ELSE IF i > Len(c.previous) THEN GetSummaryLoop(c, i + 1, summary)
    ELSE GetSummaryLoop(c, i + 1,
                        GetSummaryStep(summary,
                                       CalculateHistorical(c.current[i], c.previous[i])))

\* Comparison.GetSummary
GetSummary(c) ==
    LET summary == Summary(modeString(c), 0, 0, 0, 0)
    IN IF c.mode # ModeHistorical /\ c.mode # ModeBoth THEN summary
       ELSE GetSummaryLoop(c, 1, summary)

\* ------------------------------------------------------- compare command

\* A flag value is a Go string, kept as the sequence of its characters, each
\* the number of its code point (104 is h); a byte that is part of no valid
\* UTF-8 is kept as the negative of its value.

\* The lower-case mappings of unicode.CaseRanges (Unicode 15): each entry
\* <<lo, hi, step, delta>> says that the characters lo, lo + step, ... up to
\* hi are upper-case or title-case letters whose lower case is delta
\* further on.  Every character with a lower case of its own is in one
\* entry.
CaseRanges ==
    <<<<65, 90, 1, 32>>, <<192, 214, 1, 32>>, <<216, 222, 1, 32>>, <<256, 302, 2, 1>>,
      <<304, 304, 1, 0 - 199>>, <<306, 310, 2, 1>>, <<313, 327, 2, 1>>, <<330, 374, 2, 1>>,
      <<376, 376, 1, 0 - 121>>, <<377, 381, 2, 1>>, <<385, 385, 1, 210>>,
      <<386, 388, 2, 1>>, <<390, 390, 1, 206>>, <<391, 391, 1, 1>>, <<393, 394, 1, 205>>,
      <<395, 395, 1, 1>>, <<398, 398, 1, 79>>, <<399, 399, 1, 202>>, <<400, 400, 1, 203>>,
      <<401, 401, 1, 1>>, <<403, 403, 1, 205>>, <<404, 404, 1, 207>>, <<406, 406, 1, 211>>,
      <<407, 407, 1, 209>>, <<408, 408, 1, 1>>, <<412, 412, 1, 211>>, <<413, 413, 1, 213>>,
      <<415, 415, 1, 214>>, <<416, 420, 2, 1>>, <<422, 422, 1, 218>>, <<423, 423, 1, 1>>,
      <<425, 425, 1, 218>>, <<428, 428, 1, 1>>, <<430, 430, 1, 218>>, <<431, 431, 1, 1>>,
      <<433, 434, 1, 217>>, <<435, 437, 2, 1>>, <<439, 439, 1, 219>>, <<440, 440, 1, 1>>,
      <<444, 444, 1, 1>>, <<452, 452, 1, 2>>, <<453, 453, 1, 1>>, <<455, 455, 1, 2>>,
      <<456, 456, 1, 1>>, <<458, 458, 1, 2>>, <<459, 475, 2, 1>>, <<478, 494, 2, 1>>,
      <<497, 497, 1, 2>>, <<498, 500, 2, 1>>, <<502, 502, 1, 0 - 97>>,
      <<503, 503, 1, 0 - 56>>, <<504, 542, 2, 1>>, <<544, 544, 1, 0 - 130>>,
      <<546, 562, 2, 1>>, <<570, 570, 1, 10795>>, <<571, 571, 1, 1>>,
      <<573, 573, 1, 0 - 163>>, <<574, 574, 1, 10792>>, <<577, 577, 1, 1>>,
      <<579, 579, 1, 0 - 195>>, <<580, 580, 1, 69>>, <<581, 581, 1, 71>>,
      <<582, 590, 2, 1>>, <<880, 882, 2, 1>>, <<886, 886, 1, 1>>, <<895, 895, 1, 116>>,
      <<902, 902, 1, 38>>, <<904, 906, 1, 37>>, <<908, 908, 1, 64>>, <<910, 911, 1, 63>>,
      <<913, 929, 1, 32>>, <<931, 939, 1, 32>>, <<975, 975, 1, 8>>, <<984, 1006, 2, 1>>,
      <<1012, 1012, 1, 0 - 60>>, <<1015, 1015, 1, 1>>, <<1017, 1017, 1, 0 - 7>>,
      <<1018, 1018, 1, 1>>, <<1021, 1023, 1, 0 - 130>>, <<1024, 1039, 1, 80>>,
      <<1040, 1071, 1, 32>>, <<1120, 1152, 2, 1>>, <<1162, 1214, 2, 1>>,
      <<1216, 1216, 1, 15>>, <<1217, 1229, 2, 1>>, <<1232, 1326, 2, 1>>,
      <<1329, 1366, 1, 48>>, <<4256, 4293, 1, 7264>>, <<4295, 4295, 1, 7264>>,
      <<4301, 4301, 1, 7264>>, <<5024, 5103, 1, 38864>>, <<5104, 5109, 1, 8>>,
      <<7312, 7354, 1, 0 - 3008>>, <<7357, 7359, 1, 0 - 3008>>, <<7680, 7828, 2, 1>>,
      <<7838, 7838, 1, 0 - 7615>>, <<7840, 7934, 2, 1>>, <<7944, 7951, 1, 0 - 8>>,
      <<7960, 7965, 1, 0 - 8>>, <<7976, 7983, 1, 0 - 8>>, <<7992, 7999, 1, 0 - 8>>,
      <<8008, 8013, 1, 0 - 8>>, <<8025, 8031, 2, 0 - 8>>, <<8040, 8047, 1, 0 - 8>>,
      <<8072, 8079, 1, 0 - 8>>, <<8088, 8095, 1, 0 - 8>>, <<8104, 8111, 1, 0 - 8>>,
      <<8120, 8121, 1, 0 - 8>>, <<8122, 8123, 1, 0 - 74>>, <<8124, 8124, 1, 0 - 9>>,
      <<8136, 8139, 1, 0 - 86>>, <<8140, 8140, 1, 0 - 9>>, <<8152, 8153, 1, 0 - 8>>,
      <<8154, 8155, 1, 0 - 100>>, <<8168, 8169, 1, 0 - 8>>, <<8170, 8171, 1, 0 - 112>>,
      <<8172, 8172, 1, 0 - 7>>, <<8184, 8185, 1, 0 - 128>>, <<8186, 8187, 1, 0 - 126>>,
      <<8188, 8188, 1, 0 - 9>>, <<8486, 8486, 1, 0 - 7517>>, <<8490, 8490, 1, 0 - 8383>>,
      <<8491, 8491, 1, 0 - 8262>>, <<8498, 8498, 1, 28>>, <<8544, 8559, 1, 16>>,
      <<8579, 8579, 1, 1>>, <<9398, 9423, 1, 26>>, <<11264, 11311, 1, 48>>,
      <<11360, 11360, 1, 1>>, <<11362, 11362, 1, 0 - 10743>>,
      <<11363, 11363, 1, 0 - 3814>>, <<11364, 11364, 1, 0 - 10727>>,
      <<11367, 11371, 2, 1>>, <<11373, 11373, 1, 0 - 10780>>,
      <<11374, 11374, 1, 0 - 10749>>, <<11375, 11375, 1, 0 - 10783>>,
      <<11376, 11376, 1, 0 - 10782>>, <<11378, 11378, 1, 1>>, <<11381, 11381, 1, 1>>,
      <<11390, 11391, 1, 0 - 10815>>, <<11392, 11490, 2, 1>>, <<11499, 11501, 2, 1>>,
      <<11506, 11506, 1, 1>>, <<42560, 42604, 2, 1>>, <<42624, 42650, 2, 1>>,
      <<42786, 42798, 2, 1>>, <<42802, 42862, 2, 1>>, <<42873, 42875, 2, 1>>,
      <<42877, 42877, 1, 0 - 35332>>, <<42878, 42886, 2, 1>>, <<42891, 42891, 1, 1>>,
      <<42893, 42893, 1, 0 - 42280>>, <<42896, 42898, 2, 1>>, <<42902, 42920, 2, 1>>,
      <<42922, 42922, 1, 0 - 42308>>, <<42923, 42923, 1, 0 - 42319>>,
      <<42924, 42924, 1, 0 - 42315>>, <<42925, 42925, 1, 0 - 42305>>,
      <<42926, 42926, 1, 0 - 42308>>, <<42928, 42928, 1, 0 - 42258>>,
      <<42929, 42929, 1, 0 - 42282>>, <<42930, 42930, 1, 0 - 42261>>,
      <<42931, 42931, 1, 928>>, <<42932, 42946, 2, 1>>, <<42948, 42948, 1, 0 - 48>>,
      <<42949, 42949, 1, 0 - 42307>>, <<42950, 42950, 1, 0 - 35384>>,
      <<42951, 42953, 2, 1>>, <<42960, 42960, 1, 1>>, <<42966, 42968, 2, 1>>,
      <<42997, 42997, 1, 1>>, <<65313, 65338, 1, 32>>, <<66560, 66599, 1, 40>>,
      <<66736, 66771, 1, 40>>, <<66928, 66938, 1, 39>>, <<66940, 66954, 1, 39>>,
      <<66956, 66962, 1, 39>>, <<66964, 66965, 1, 39>>, <<68736, 68786, 1, 64>>,
      <<71840, 71871, 1, 32>>, <<93760, 93791, 1, 32>>, <<125184, 125217, 1, 34>>>>

\* unicode.ToLower: ASCII is mapped at once, any other character through
\* the case ranges.
ToLowerRune(c) ==
    IF c <= 127 THEN (IF c \in 65..90 THEN c + 32 ELSE c)
    ELSE IF \E k \in DOMAIN CaseRanges :
               /\ c \in CaseRanges[k][1]..CaseRanges[k][2]
               /\ (c - CaseRanges[k][1]) % CaseRanges[k][3] = 0
    THEN LET k == CHOOSE k \in DOMAIN CaseRanges :
                     /\ c \in CaseRanges[k][1]..CaseRanges[k][2]
                     /\ (c - CaseRanges[k][1]) % CaseRanges[k][3] = 0
         IN c + CaseRanges[k][4]
    ELSE c

\* strings.ToLower: every character becomes its lower case; a byte that is
\* no valid UTF-8 becomes U+FFFD.
ToLower(str) ==
    [k \in DOMAIN str |-> IF str[k] < 0 THEN 65533 ELSE ToLowerRune(str[k])]

\* unicode.IsSpace: tab, line feed, vertical tab, form feed, return, space,
\* the next line (U+0085) and the no-break space (U+00A0) of Latin-1, and
\* the characters of the categories Z: U+1680, U+2000 to U+200A, U+2028,
\* U+2029, U+202F, U+205F, U+3000.
WhiteSpace ==
    (9..13) \cup {32, 133, 160, 5760} \cup (8192..8202)
    \cup {8232, 8233, 8239, 8287, 12288}

\* strings.TrimSpace: the white space at both ends is cut off.
RECURSIVE TrimLeft(_)
TrimLeft(str) ==
    IF str # <<>> /\ Head(str) \in WhiteSpace THEN TrimLeft(Tail(str)) ELSE str
RECURSIVE TrimRight(_)
TrimRight(str) ==
    IF str # <<>> /\ str[Len(str)] \in WhiteSpace
    THEN TrimRight(SubSeq(str, 1, Len(str) - 1))
    ELSE str
TrimSpace(str) == TrimRight(TrimLeft(str))

\* The names of the modes: "historical", "cross-query", "crossquery", "both".
WordHistorical == <<104, 105, 115, 116, 111, 114, 105, 99, 97, 108>>
WordCrossQuery == <<99, 114, 111, 115, 115, 45, 113, 117, 101, 114, 121>>
WordCrossquery == <<99, 114, 111, 115, 115, 113, 117, 101, 114, 121>>
WordBoth == <<98, 111, 116, 104>>

\* The switch of parseComparisonMode, on the flag value as it is.
ModeOfWord(m) ==
    IF m = WordHistorical THEN ModeHistorical
    ELSE IF m \in {WordCrossQuery, WordCrossquery} THEN ModeCrossQuery
    ELSE IF m = WordBoth THEN ModeBoth
    ELSE ModeBoth

\* parseComparisonMode: the switch over the flag value in lower case and
\* without the white space around it.
parseComparisonMode(m) == ModeOfWord(ToLower(TrimSpace(m)))

\* The options the compare command builds for its two reports.
HistoricalOptions == Options(TRUE, TRUE, TRUE, 20)
CrossQueryOptions == Options(FALSE, TRUE, TRUE, 20)

\* The names under which the two reports are written and spoken of.
ReportNames ==
    [historical |-> [what |-> "historical comparison",
                     file |-> "comparison_historical.txt",
                     message |-> "Generating historical comparison report..."],
     crossQuery |-> [what |-> "cross-query comparison",
                     file |-> "comparison_cross_query.txt",
                     message |-> "Generating cross-query comparison report..."]]

\* The path FindPreviousResults returns, and a --with path that cannot be read.
PreviousPath == "run_1/results.json"
MissingPath == "missing.json"

\* The value of compareWith after the search for a previous run: the flag
\* when given, else the path found, else still "".
CompareWithAfter(f, d) ==
    IF parseComparisonMode(f.compareMode) \in {ModeHistorical, ModeBoth}
       /\ f.compareWith = "" /\ d.previous
    THEN PreviousPath
    ELSE f.compareWith

\* The mode after the search: both mode without a previous run goes on as
\* cross-query mode.
ModeAfter(f, d) ==
    IF parseComparisonMode(f.compareMode) = ModeBoth /\ f.compareWith = "" /\ ~d.previous
    THEN ModeCrossQuery
    ELSE parseComparisonMode(f.compareMode)

\* The previous result set runCompare holds at its switch: what the file
\* named by compareWith holds, nothing when there is no such name or the
\* mode is cross-query.
PreviousLoaded(f, d, previousFile) ==
    IF parseComparisonMode(f.compareMode) # ModeCrossQuery /\ CompareWithAfter(f, d) # ""
    THEN previousFile
    ELSE <<>>

\* A runCompare for which a missing previous run is an error in both mode as
\* it is in historical mode.
LoadErrorBothStrict(f, d) ==
    IF ~d.config THEN "load config"
    ELSE IF ~d.latest THEN "failed to find current results"
    ELSE IF ~d.readable THEN "failed to load current results"
    ELSE IF parseComparisonMode(f.compareMode) # ModeCrossQuery
            /\ f.compareWith = "" /\ ~d.previous
    THEN "historical comparison requested but no previous results found"
    ELSE IF parseComparisonMode(f.compareMode) # ModeCrossQuery
            /\ CompareWithAfter(f, d) = MissingPath
    THEN "failed to load previous results"
    ELSE ""

\* The error runCompare returns before its switch over the mode, for the
\* flags f and the disk d ("": none, the switch is reached).
LoadError(f, d) ==
    IF ~d.config THEN "load config"
    ELSE IF ~d.latest THEN "failed to find current results"
    ELSE IF ~d.readable THEN "failed to load current results"
    ELSE IF parseComparisonMode(f.compareMode) = ModeHistorical
            /\ f.compareWith = "" /\ ~d.previous
    THEN "historical comparison requested but no previous results found"
    ELSE IF parseComparisonMode(f.compareMode) # ModeCrossQuery
            /\ CompareWithAfter(f, d) = MissingPath
    THEN "failed to load previous results"
    ELSE ""

\* ------------------------------------------- the legacy report (cmd/diff.go)

\* fmt.Fprintf(w, ...) statements in a row: the legacy report looks at none
\* of their errors, so the line of a write that fails is missing from the
\* output, no error is kept and the next statement writes on.  w is kept in
\* a formatter record, opts in its options.
RECURSIVE Fprintf(_, _)
Fprintf(w, lines) ==
    IF lines = <<>> THEN w
    ELSE IF w.writes + 1 = w.failAt
    THEN Fprintf([w EXCEPT !.writes = @ + 1], Tail(lines))
    ELSE Fprintf([w EXCEPT !.writes = @ + 1,
                           !.out = Append(@, [Head(lines) EXCEPT !.sec = w.sec])],
                 Tail(lines))

\* cmd.CalculateStats: statement for statement the code of
\* Calculator.CalculateHistorical.
CalculateStats(curr, prev) == CalculateHistorical(curr, prev)

\* cmd.printStats
printStats(w, stats) ==
    Fprintf(w, <<Line("Statistics", "", <<>>),
                 Line("Total Results", "", <<stats.TotalResults>>),
                 Line("New|Removed", "", <<stats.NewResults, stats.RemovedCount>>),
                 Line("Improved|Worsened|Unchanged", "",
                      <<stats.ImprovedCount, stats.WorsedCount, stats.UnchangedCount>>),
                 Line("Avg Rank Change", "",
                      <<stats.AvgRankChange.num, stats.AvgRankChange.den>>)>>)

\* displayCount of generateHistoricalDiff
DiffDisplayCount(opts, results) ==
    IF opts.MaxRankDisplay > 0 /\ opts.MaxRankDisplay < Len(results)
    THEN opts.MaxRankDisplay ELSE Len(results)

\* The lines generateHistoricalDiff prints for the current result r in its
\* display loop.
DiffRankingRow(opts, r, prevMap) ==
    IF r.URI \notin DOMAIN prevMap
    THEN <<Line(IF opts.HighlightNew THEN "row new highlighted" ELSE "row new", "",
                <<r.Rank>>)>>
         \o (IF opts.ShowScores THEN <<Line("score", "", <<r.Score>>)>> ELSE <<>>)
         \o <<Line("URI", r.URI, <<>>)>>
    ELSE LET prevResult == prevMap[r.URI]
             change == prevResult.Rank - r.Rank
         IN IF prevResult.Rank # r.Rank
            THEN <<Line(IF change < 0 THEN "row down" ELSE "row up", "",
                        <<Abs(change), r.Rank, prevResult.Rank>>)>>
                 \o (IF opts.ShowScores
                     THEN <<Line("score", "", <<prevResult.Score, r.Score>>),
                            Line("type", "", <<>>)>>
                     ELSE <<>>)
                 \o <<Line("URI", r.URI, <<>>)>>
            ELSE IF opts.ShowUnchanged
            THEN <<Line("row unchanged", "", <<r.Rank>>)>>
                 \o (IF opts.ShowScores /\ ScoreDrifted(r.Score - prevResult.Score)
                     THEN <<Line("score", "", <<prevResult.Score, r.Score>>)>>
                     ELSE <<>>)
                 \o <<Line("newline", "", <<>>)>>
            ELSE <<>>

\* currURIs once the display loop of generateHistoricalDiff has ended: the
\* uris of the results it went through, the first displayCount of the list.
DiffSeen(results, displayCount) == {results[k].URI : k \in 1..displayCount}

\* The display loop of generateHistoricalDiff, from result i on.
RECURSIVE DiffRankingLoop(_, _, _, _, _)
DiffRankingLoop(w, results, i, displayCount, prevMap) ==
    IF i > displayCount THEN w
    ELSE DiffRankingLoop(Fprintf(w, DiffRankingRow(w.options, results[i], prevMap)),
                         results, i + 1, displayCount, prevMap)

\* The loop of generateHistoricalDiff over prev.Results, from result i on,
\* and the "None" line after it; removedCount counts the rows printed.
RECURSIVE DiffRemovedLoop(_, _, _, _, _)
DiffRemovedLoop(w, results, i, currURIs, removedCount) ==
    IF i > Len(results)
    THEN Fprintf(w, (IF removedCount = 0 THEN <<Line("None", "", <<>>)>> ELSE <<>>)
                    \o <<Line("newline", "", <<>>)>>)
    ELSE IF results[i].URI \notin currURIs
         THEN DiffRemovedLoop(
                  Fprintf(w, <<Line("row removed", "", <<results[i].Rank>>)>>
                             \o (IF w.options.ShowScores
                                 THEN <<Line("score", "", <<results[i].Score>>)>>
                                 ELSE <<>>)
                             \o <<Line("URI", results[i].URI, <<>>)>>),
                  results, i + 1, currURIs, removedCount + 1)
         ELSE DiffRemovedLoop(w, results, i + 1, currURIs, removedCount)

\* The body of generateHistoricalDiff's loop for an index that has a
\* previous.
DiffPair(w, curr, prev) ==
    LET displayCount == DiffDisplayCount(w.options, curr.Results)
        w1 == Fprintf(w, <<Line("separator", "", <<>>),
                           Line("Query", curr.Query, <<>>),
                           Line("Algorithm", prev.Algorithm \o " -> " \o curr.Algorithm, <<>>)>>
                         \o (IF curr.Description # ""
                             THEN <<Line("Description", curr.Description, <<>>)>> ELSE <<>>)
                         \o <<Line("separator", "", <<>>)>>)
        w2 == Fprintf(printStats(w1, CalculateStats(curr, prev)),
                      <<Line("newline", "", <<>>), Line("--- Ranking Changes ---", "", <<>>)>>)
        w3 == DiffRankingLoop(w2, curr.Results, 1, displayCount, makeURIMap(prev.Results))
    IN DiffRemovedLoop(Fprintf(w3, <<Line("--- Removed from Results ---", "", <<>>)>>),
                       prev.Results, 1, DiffSeen(curr.Results, displayCount), 0)

\* generateHistoricalDiff's loop over current, from index i on.
RECURSIVE DiffLoop(_, _, _, _)
DiffLoop(w, current, previous, i) ==
    IF i > Len(current) THEN InSection(w, 0, 0)
    ELSE DiffLoop(IF i > Len(previous)
                  THEN Fprintf(InSection(w, i, i),
                               <<Line("[INFO] not in previous", "", <<i>>)>>)
                  ELSE DiffPair(InSection(w, i, i), current[i], previous[i]),
                  current, previous, i + 1)

\* cmd.generateHistoricalDiff; current[0] of an empty current panics.
generateHistoricalDiff(w, current, previous) ==
    IF Len(current) = 0 THEN [w EXCEPT !.err = "panic: index out of range"]
    ELSE LET t == SummaryTotals(current, previous, 1)
         IN Fprintf(DiffLoop(Fprintf(w, <<Line("Generated", "", <<>>),
                                          Line("separator", "", <<>>)>>),
                             current, previous, 1),
                    <<Line("separator", "", <<>>),
                      Line("Historical Comparison Summary", "", <<>>),
                      Line("separator", "", <<>>),
                      Line("Total queries compared", "", <<Len(current)>>),
                      Line("Total new results", "", <<t.totalNew>>),
                      Line("Total removed results", "", <<t.totalRemoved>>),
                      Line("Total improved rankings", "", <<t.totalImproved>>),
                      Line("Total worsened rankings", "", <<t.totalWorsened>>)>>)

\* cmd.CalculateCrossQueryStats: statement for statement the code of
\* Calculator.CalculateCrossQuery.
CalculateCrossQueryStats(q1, q2) == CalculateCrossQuery(q1, q2)

\* cmd.printCrossQueryStats
printCrossQueryStats(w, stats) ==
    Fprintf(w, <<Line("Statistics", "", <<>>),
                 Line("Common Results", "", <<stats.CommonResults>>),
                 Line("Only in Query 1", "", <<stats.OnlyInQuery1>>),
                 Line("Only in Query 2", "", <<stats.OnlyInQuery2>>),
                 Line("Ranking Differences", "", <<stats.RankingDiffCount>>)>>
               \o (IF stats.RankingDiffCount > 0
                   THEN <<Line("Avg Ranking Difference", "",
                               <<stats.AvgRankingDiff.num, stats.AvgRankingDiff.den>>)>>
                   ELSE <<>>))

\* The lines printCrossQueryResults prints for a result only one query has.
DiffOnlyRow(opts, kind, r) ==
    <<Line(kind, "", <<r.Rank>>)>>
    \o (IF opts.ShowScores THEN <<Line("score", "", <<r.Score>>)>> ELSE <<>>)
    \o <<Line("URI", r.URI, <<>>)>>

\* The two loops of printCrossQueryResults over the results only one query
\* has, from result i on, and the "None" line and the newline after them;
\* otherMap is the map of the other query, only counts the rows printed.
RECURSIVE DiffOnlyLoop(_, _, _, _, _, _, _)
DiffOnlyLoop(w, kind, results, i, displayCount, otherMap, only) ==
    IF ~(i <= displayCount /\ i <= Len(results))
    THEN Fprintf(w, (IF only = 0 THEN <<Line("None", "", <<>>)>> ELSE <<>>)
                    \o <<Line("newline", "", <<>>)>>)
    ELSE IF results[i].URI \notin DOMAIN otherMap
         THEN DiffOnlyLoop(Fprintf(w, DiffOnlyRow(w.options, kind, results[i])),
                           kind, results, i + 1, displayCount, otherMap, only + 1)
         ELSE DiffOnlyLoop(w, kind, results, i + 1, displayCount, otherMap, only)

\* The lines printCrossQueryResults prints for a common result whose ranks
\* differ.
DiffRankingDifferenceRow(opts, r1, r2) ==
    <<Line(IF r1.Rank - r2.Rank < 0 THEN "row diff down" ELSE "row diff up", "",
           <<Abs(r1.Rank - r2.Rank)>>),
      Line("Query 1 | Query 2", "", <<r1.Rank, r2.Rank>>)>>
    \o (IF opts.ShowScores
        THEN <<Line("score", "", <<r1.Score, r2.Score, r2.Score - r1.Score>>)>>
        ELSE <<>>)
    \o <<Line("URI", r1.URI, <<>>)>>

\* The third loop of printCrossQueryResults, from result i on, and the
\* "None" line and the newline after it.
RECURSIVE DiffRankingDifferenceLoop(_, _, _, _, _, _)
DiffRankingDifferenceLoop(w, results, i, displayCount, q2Map, hasDifferences) ==
    IF ~(i <= displayCount /\ i <= Len(results))
    THEN Fprintf(w, (IF ~hasDifferences THEN <<Line("None", "", <<>>)>> ELSE <<>>)
                    \o <<Line("newline", "", <<>>)>>)
    ELSE IF results[i].URI \in DOMAIN q2Map
            /\ results[i].Rank # q2Map[results[i].URI].Rank
         THEN DiffRankingDifferenceLoop(
                  Fprintf(w, DiffRankingDifferenceRow(w.options, results[i],
                                                      q2Map[results[i].URI])),
                  results, i + 1, displayCount, q2Map, TRUE)
         ELSE DiffRankingDifferenceLoop(w, results, i + 1, displayCount, q2Map,
                                        hasDifferences)

\* cmd.printCrossQueryResults: one displayCount, taken from the list of
\* query1, bounds all three loops.
printCrossQueryResults(w, query1, query2, displayCount) ==
    DiffRankingDifferenceLoop(
        Fprintf(DiffOnlyLoop(
                    Fprintf(DiffOnlyLoop(
                                Fprintf(w, <<Line("--- Results Only in Query 1 ---", "",
                                                  <<>>)>>),
                                "row only in 1", query1.Results, 1, displayCount,
                                makeURIMap(query2.Results), 0),
                            <<Line("--- Results Only in Query 2 ---", "", <<>>)>>),
                    "row only in 2", query2.Results, 1, displayCount,
                    makeURIMap(query1.Results), 0),
                <<Line("--- Ranking Differences for Common Results ---", "", <<>>)>>),
        query1.Results, 1, displayCount, makeURIMap(query2.Results), FALSE)

\* The body of generateCrossQueryDiff's inner loop for the pair
\* (query1, query2).
DiffCrossPair(w, query1, query2) ==
    printCrossQueryResults(
        Fprintf(printCrossQueryStats(
                    Fprintf(w, <<Line("separator", "", <<>>),
                                 Line("Query Comparison", "", <<>>),
                                 Line("separator", "", <<>>),
                                 Line("Query 1",
                                      query1.Query \o " (" \o query1.Algorithm \o ")", <<>>),
                                 Line("Query 2",
                                      query2.Query \o " (" \o query2.Algorithm \o ")", <<>>),
                                 Line("dashes", "", <<>>)>>),
                    CalculateCrossQueryStats(query1, query2)),
                <<Line("newline", "", <<>>)>>),
        query1, query2, DiffDisplayCount(w.options, query1.Results))

\* generateCrossQueryDiff's nested loops, from the pair (i, j) on (1-based):
\* for i := 0; i < len-1; i++ { for j := i+1; j < len; j++ { ... } }
RECURSIVE DiffCrossLoop(_, _, _, _)
DiffCrossLoop(w, queries, i, j) ==
    IF i > Len(queries) - 1 THEN InSection(w, 0, 0)
    ELSE IF j > Len(queries) THEN DiffCrossLoop(w, queries, i + 1, i + 2)
    ELSE DiffCrossLoop(DiffCrossPair(InSection(w, i, j), queries[i], queries[j]),
                       queries, i, j + 1)

\* cmd.generateCrossQueryDiff
generateCrossQueryDiff(w, current) ==
    IF Len(current) < 2
    THEN Fprintf(w, <<Line("Need at least 2 queries to compare", "", <<>>)>>)
    ELSE Fprintf(DiffCrossLoop(Fprintf(w, <<Line("Generated", "", <<>>),
                                            Line("separator", "", <<>>)>>),
                               current, 1, 2),
                 <<Line("separator", "", <<>>),
                   Line("Cross Query Summary", "", <<>>),
                   Line("separator", "", <<>>),
                   Line("Total queries analyzed", "", <<Len(current)>>),
                   Line("Comparison pairs", "",
                        <<(Len(current) * (Len(current) - 1)) \div 2>>)>>)

\* The second half of generateBothDiffs, after the historical report h: its
\* panic ends the call; else the separator, the heading and the cross-query
\* report.
DiffBothCrossQuery(h, current) ==
    IF h.err # "" THEN h
    ELSE generateCrossQueryDiff(
             Fprintf(h, <<Line("newline", "", <<>>),
                          Line("hashes", "", <<>>),
                          Line("hashes", "", <<>>),
                          Line("newline", "", <<>>),
                          Line("separator", "", <<>>),
                          Line("CROSS-QUERY COMPARISON", "", <<>>),
                          Line("separator", "", <<>>)>>),
             current)

\* cmd.generateBothDiffs
generateBothDiffs(w, current, previous) ==
    DiffBothCrossQuery(
        generateHistoricalDiff(Fprintf(w, <<Line("separator", "", <<>>),
                                            Line("HISTORICAL COMPARISON", "", <<>>),
                                            Line("separator", "", <<>>)>>),
                               current, previous),
        current)

\* cmd.GenerateWithMode; the modes of package cmd have the values of those
\* of package comparison.
GenerateWithMode(w, current, previous, m) ==
    IF m = ModeCrossQuery THEN generateCrossQueryDiff(w, current)
    ELSE IF m = ModeBoth THEN generateBothDiffs(w, current, previous)
    ELSE generateHistoricalDiff(w, current, previous)

\* cmd.Generate: GenerateWithMode in ModeHistorical.
DiffGenerate(w, current, previous) ==
    GenerateWithMode(w, current, previous, ModeHistorical)

\* ------------------------------------------------ the stored index file

\* A Go string of an index is kept as the sequence of its characters, each
\* the number of its code point; a byte that is part of no valid UTF-8 is
\* kept as the negative of its value.  The text of a JSON string literal is
\* kept the same way.  The characters the model names:
Rune ==
    [Letter |-> 97, UpperA |-> 65, Quote |-> 34, Backslash |-> 92, Slash |-> 47,
     LessThan |-> 60, GreaterThan |-> 62, Ampersand |-> 38,
     Backspace |-> 8, Tab |-> 9, LineFeed |-> 10, FormFeed |-> 12, Return |-> 13,
     LineSeparator |-> 8232, ParagraphSeparator |-> 8233,
     Replacement |-> 65533, InvalidByte |-> 0 - 255]

\* The letters after the backslash of the short escapes.
Escape == [b |-> 98, f |-> 102, n |-> 110, r |-> 114, t |-> 116, u |-> 117]

\* Those drawn for the strings of an index: a letter, the quotation mark,
\* the less-than sign and the line feed, which encoding/json escapes each in
\* its own way, and a byte that is no valid UTF-8.
Chars == {Rune.Letter, Rune.Quote, Rune.LessThan, Rune.LineFeed, Rune.InvalidByte}

\* The hexadecimal digit json.Marshal writes for a value of 0..15, and the
\* value of a hexadecimal digit in either case (-1: not a digit).
HexDigit(v) == IF v < 10 THEN 48 + v ELSE 87 + v
HexValue(c) ==
    IF c \in 48..57 THEN c - 48
    ELSE IF c \in 97..102 THEN c - 87
    ELSE IF c \in 65..70 THEN c - 55
    ELSE 0 - 1

\* The escape of the code point c below 65536 by its four hexadecimal digits.
EscapeU4(c) ==
    <<Rune.Backslash, Escape.u, HexDigit(c \div 4096), HexDigit((c \div 256) % 16),
      HexDigit((c \div 16) % 16), HexDigit(c % 16)>>

\* How json.Marshal writes one character inside a string literal (HTML
\* escaping is on): a byte that is no valid UTF-8 as the escape of U+FFFD;
\* the quotation mark and the backslash after a backslash; backspace, form
\* feed, line feed, return and tab as their short escapes; any other control
\* character, the signs <, > and &, and the line and paragraph separators by
\* their four hexadecimal digits; the character itself otherwise.
EncodeChar(c) ==
    IF c < 0 THEN EscapeU4(Rune.Replacement)
    ELSE IF c \in {Rune.Quote, Rune.Backslash} THEN <<Rune.Backslash, c>>
    ELSE IF c = Rune.Backspace THEN <<Rune.Backslash, Escape.b>>
    ELSE IF c = Rune.FormFeed THEN <<Rune.Backslash, Escape.f>>
    ELSE IF c = Rune.LineFeed THEN <<Rune.Backslash, Escape.n>>
    ELSE IF c = Rune.Return THEN <<Rune.Backslash, Escape.r>>
    ELSE IF c = Rune.Tab THEN <<Rune.Backslash, Escape.t>>
    ELSE IF c < 32 \/ c \in {Rune.LessThan, Rune.GreaterThan, Rune.Ampersand}
    THEN EscapeU4(c)
    ELSE IF c \in {Rune.LineSeparator, Rune.ParagraphSeparator} THEN EscapeU4(c)
    ELSE <<c>>

\* The text of the string literal json.Marshal writes for the Go string str,
\* without the enclosing quotation marks.
RECURSIVE EncodeString(_)
EncodeString(str) ==
    IF str = <<>> THEN <<>> ELSE EncodeChar(Head(str)) \o EncodeString(Tail(str))

\* A reader that takes the letter of a short escape for its character.
UnescapeKept(e) == e

\* The character a short escape stands for: the quotation mark, the
\* backslash and the slash stand for themselves.
Unescape(e) ==
    IF e = Escape.b THEN Rune.Backspace
    ELSE IF e = Escape.f THEN Rune.FormFeed
    ELSE IF e = Escape.n THEN Rune.LineFeed
    ELSE IF e = Escape.r THEN Rune.Return
    ELSE IF e = Escape.t THEN Rune.Tab
    ELSE e

\* getu4: the value of the four hexadecimal digits of the escape at the
\* head of the text, -1 when there is no such escape.
getu4(text) ==
    IF Len(text) < 6 \/ text[1] # Rune.Backslash \/ text[2] # Escape.u THEN 0 - 1
    ELSE IF \E k \in 3..6 : HexValue(text[k]) < 0 THEN 0 - 1
    ELSE HexValue(text[3]) * 4096 + HexValue(text[4]) * 256
         + HexValue(text[5]) * 16 + HexValue(text[6])

\* utf16.IsSurrogate, and the two halves of a surrogate pair.
IsSurrogate(r) == r \in 55296..57343
IsHighSurrogate(r) == r \in 55296..56319
IsLowSurrogate(r) == r \in 56320..57343

\* utf16.DecodeRune: the character of a surrogate pair, U+FFFD for anything else.
DecodeRune(r1, r2) ==
    IF IsHighSurrogate(r1) /\ IsLowSurrogate(r2)
    THEN 65536 + (r1 - 55296) * 1024 + (r2 - 56320)
    ELSE Rune.Replacement

\* Whether the text is the inside of a JSON string literal: no control
\* character and no quotation mark stands unescaped, a backslash is followed
\* by one of the short escapes or by u and four hexadecimal digits.
RECURSIVE ValidLiteral(_)
ValidLiteral(text) ==
    IF text = <<>> THEN TRUE
    ELSE IF Head(text) = Rune.Backslash
    THEN IF Len(text) < 2 THEN FALSE
         ELSE IF text[2] = Escape.u
         THEN getu4(text) >= 0 /\ ValidLiteral(SubSeq(text, 7, Len(text)))
         ELSE /\ text[2] \in {Rune.Quote, Rune.Backslash, Rune.Slash, Escape.b,
                              Escape.f, Escape.n, Escape.r, Escape.t}
              /\ ValidLiteral(SubSeq(text, 3, Len(text)))
    ELSE IF Head(text) \in 0..31 \/ Head(text) = Rune.Quote THEN FALSE
    ELSE ValidLiteral(Tail(text))

\* The Go string json.Unmarshal reads from the text of a valid string
\* literal: an escape gives its character, the two escapes of a surrogate
\* pair give one character, a surrogate without its other half and a byte
\* that is no valid UTF-8 give U+FFFD.
RECURSIVE DecodeString(_)
DecodeString(text) ==
    IF text = <<>> THEN <<>>
    ELSE IF Head(text) = Rune.Backslash
    THEN IF text[2] = Escape.u
         THEN LET rr == getu4(text)
                  rest == SubSeq(text, 7, Len(text))
              IN IF ~IsSurrogate(rr) THEN <<rr>> \o DecodeString(rest)
                 ELSE IF DecodeRune(rr, getu4(rest)) # Rune.Replacement
                 THEN <<DecodeRune(rr, getu4(rest))>>
                      \o DecodeString(SubSeq(rest, 7, Len(rest)))
                 ELSE <<Rune.Replacement>> \o DecodeString(rest)
         ELSE <<Unescape(text[2])>> \o DecodeString(SubSeq(text, 3, Len(text)))
    ELSE IF Head(text) < 0
    THEN <<Rune.Replacement>> \o DecodeString(Tail(text))
    ELSE <<Head(text)>> \o DecodeString(Tail(text))

\* models.Document and models.StoredIndex
Document(id, title, uri, body, contentType, date) ==
    [ID |-> id, Title |-> title, URI |-> uri, Body |-> body,
     ContentType |-> contentType, Date |-> date]
StoredIndex(generatedAt, version, sourceIndex, documents) ==
    [GeneratedAt |-> generatedAt, Version |-> version, SourceIndex |-> sourceIndex,
     Documents |-> documents]

\* A time.Time: what its wall clock reads in its own zone (the year, and
\* the seconds into that year), the offset of the zone in seconds east of
\* UTC, and its monotonic clock reading (0: none).  Fractions of a second
\* are written and read in full and are left out.
Time(year, sec, offset, mono) ==
    [year |-> year, sec |-> sec, offset |-> offset, mono |-> mono]

\* The zero StoredIndex; the zero time.Time is in year 1, in UTC.
NoIndex == StoredIndex(Time(1, 0, 0, 0), <<>>, <<>>, <<>>)

\* Go's integer division, which rounds towards zero.
Quo(a, b) == IF a >= 0 THEN a \div b ELSE 0 - ((0 - a) \div b)

\* The zone of a time as RFC 3339 writes it, in minutes: the seconds of the
\* offset are dropped.
ZoneMinutes(t) == Quo(t.offset, 60)

\* Time.MarshalJSON fails for a year outside 0..9999 and for a zone whose
\* hours are outside 0..23.
MarshalTimeFails(t) ==
    \/ t.year < 0
    \/ t.year > 9999
    \/ Quo(ZoneMinutes(t), 60) >= 24
    \/ Quo(ZoneMinutes(t), 60) <= 0 - 24

\* Time.MarshalJSON: the RFC 3339 text holds the wall clock and the zone in
\* hours and minutes; the monotonic reading is not written.
MarshalTime(t) == [year |-> t.year, sec |-> t.sec, zone |-> ZoneMinutes(t)]

\* Time.UnmarshalJSON: a time of that wall clock in the zone of the text.
UnmarshalTime(text) == Time(text.year, text.sec, text.zone * 60, 0)

\* json.MarshalIndent of a Document and of a StoredIndex: an object with
\* the keys of the json tags, every string a string literal; the documents
\* are an array in the order of the slice.
MarshalDocument(d) ==
    [id |-> EncodeString(d.ID), title |-> EncodeString(d.Title),
     uri |-> EncodeString(d.URI), body |-> EncodeString(d.Body),
     content_type |-> EncodeString(d.ContentType), date |-> EncodeString(d.Date)]
MarshalIndex(x) ==
    [generated_at |-> MarshalTime(x.GeneratedAt), version |-> EncodeString(x.Version),
     source_index |-> EncodeString(x.SourceIndex),
     documents |-> [i \in DOMAIN x.Documents |-> MarshalDocument(x.Documents[i])]]

\* json.Unmarshal of such an object into a Document and a StoredIndex.
UnmarshalDocument(o) ==
    Document(DecodeString(o.id), DecodeString(o.title), DecodeString(o.uri),
             DecodeString(o.body), DecodeString(o.content_type), DecodeString(o.date))
UnmarshalIndex(o) ==
    StoredIndex(UnmarshalTime(o.generated_at), DecodeString(o.version),
                DecodeString(o.source_index),
                [i \in DOMAIN o.documents |-> UnmarshalDocument(o.documents[i])])

\* Whether every string of such an object is a JSON string literal.
ValidDocument(o) ==
    /\ ValidLiteral(o.id) /\ ValidLiteral(o.title) /\ ValidLiteral(o.uri)
    /\ ValidLiteral(o.body) /\ ValidLiteral(o.content_type) /\ ValidLiteral(o.date)
ValidIndex(o) ==
    /\ ValidLiteral(o.version)
    /\ ValidLiteral(o.source_index)
    /\ \A i \in DOMAIN o.documents : ValidDocument(o.documents[i])

\* A file of a run folder: its content is a JSON object or plain text.
JSONFile(name, object) == [name |-> name, json |-> TRUE, content |-> object]
TextFile(name, text) == [name |-> name, json |-> FALSE, content |-> text]

\* A run folder: its files, and the names os.WriteFile cannot write in it.
Folder(blocked, held) == [blocked |-> blocked, files |-> held]
EmptyFolder(blocked) == Folder(blocked, {})

\* os.WriteFile(path, data, 0644)
WriteFile(dir, file) ==
    IF file.name \in dir.blocked THEN [folder |-> dir, err |-> "open"]
    ELSE [folder |-> [dir EXCEPT !.files = {f \in @ : f.name # file.name} \cup {file}],
          err |-> ""]

\* The lines of metadata.txt that depend on the index; GeneratedAt is
\* written as its wall clock, without its zone.
Metadata(x) ==
    [generated |-> [year |-> x.GeneratedAt.year, sec |-> x.GeneratedAt.sec],
     version |-> x.Version, source |-> x.SourceIndex,
     count |-> Len(x.Documents)]

\* SaveIndex from its second write on: metadata.txt.
SaveMetadata(dir, x) ==
    LET w == WriteFile(dir, TextFile("metadata.txt", Metadata(x)))
    IN IF w.err # "" THEN [folder |-> w.folder, err |-> "write metadata"]
       ELSE [folder |-> w.folder, err |-> ""]

\* Saver.SaveIndex: marshal, write index.json, write metadata.txt; the
\* first step that fails returns its error and leaves what was written.
SaveIndex(dir, x) ==
    IF MarshalTimeFails(x.GeneratedAt) THEN [folder |-> dir, err |-> "marshal index"]
    ELSE LET w == WriteFile(dir, JSONFile("index.json", MarshalIndex(x)))
         IN IF w.err # "" THEN [folder |-> w.folder, err |-> "write index"]
            ELSE SaveMetadata(w.folder, x)

\* What Load returns before it is called.
NotLoaded == [index |-> NoIndex, err |-> "", path |-> ""]

\* Loader.Load of the file of that name in the folder: the file is read,
\* then parsed, which fails for text that is no JSON.
Load(dir, name) ==
    IF \A f \in dir.files : f.name # name
    THEN [index |-> NoIndex, err |-> "read index file", path |-> name]
    ELSE LET file == CHOOSE f \in dir.files : f.name = name
         IN IF ~file.json \/ ~ValidIndex(file.content)
            THEN [index |-> NoIndex, err |-> "parse index", path |-> name]
            ELSE [index |-> UnmarshalIndex(file.content), err |-> "", path |-> name]

\* ------------------------------------------------------------ the spinner

\* frames of Spinner.Start, by code point (the ten braille patterns).
Frames ==
    <<"U+280B", "U+2819", "U+2839", "U+2838", "U+283C",
      "U+2834", "U+2826", "U+2827", "U+2807", "U+280F">>

\* NewSpinner(message): done is an unbuffered channel, so all it can hold
\* is a sender waiting for its receiver.
NewSpinner(message) ==
    [message |-> message, active |-> FALSE, done |-> "empty"]

\* The goroutine of Start before the go statement has run.
NotAnimated == [pc |-> "not started", i |-> 0]

\* fmt.Printf / fmt.Print on the terminal, of which the latest MaxOutput
\* outputs are kept.
Stdout(terminal, text) ==
    IF Len(terminal) < MaxOutput THEN Append(terminal, text)
    ELSE Append(Tail(terminal), text)

\* fmt.Printf("\r%s %s", frames[i], s.message) for the value read from
\* s.message; i counts from 0.
FrameText(message, i) == <<"CR", Frames[i + 1], " ", message>>

\* fmt.Print("\r\033[K")
ClearLine == <<"CR", "ESC[K">>

\* A select whose receive case goes on into the loop.
selectFallsThrough(s) ==
    IF s.done = "sender waiting"
    THEN [pc |-> "default", received |-> TRUE]
    ELSE [pc |-> "default", received |-> FALSE]

\* select { case <-s.done: return; default: ... }: the receive is taken
\* when a sender waits, the default branch otherwise.
select(s) ==
    IF s.done = "sender waiting"
    THEN [pc |-> "returned", received |-> TRUE]
    ELSE [pc |-> "default", received |-> FALSE]

\* What the goroutine's read of s.message can yield.  The writes of
\* UpdateMessage after Start are not ordered with the read (a data race):
\* the read yields any of the values written since the goroutine began, or,
\* a string being a pointer and a length, the bytes of one read in the
\* length of another.
Torn(a, b) == "bytes of '" \o a \o "' in the length of '" \o b \o "'"
ReadMessage(written) ==
    written \cup {Torn(t[1], t[2]) : t \in {u \in written \X written : u[1] # u[2]}}

\* What the goroutine's read of s.active can yield.  The write of Start
\* happens before the goroutine; the write of Stop is not ordered with the
\* read (a data race), so once Stop has written, the read yields either the
\* value of Start or the value of Stop.
ReadActive(s, stopping) ==
    IF stopping THEN {s.active, TRUE} ELSE {s.active}

\* ------------------------------------------------------------------ state

VARIABLES
    pc,          \* which call the run has reached
    curr, prev,  \* the two QueryResults handed to the calculator
    hist,        \* CalculateHistorical(curr, prev)
    histSwapped, \* CalculateHistorical(prev, curr)
    cross,       \* CalculateCrossQuery(curr, prev)
    crossSwapped,\* CalculateCrossQuery(prev, curr)
    scored,      \* the result list handed to averageScore
    avgScore,    \* averageScore(scored)
    current,     \* the current run handed to the formatter
    previous,    \* the previous run handed to the formatter
    options,     \* comparison.Options of the formatter
    fmt,         \* the formatter (its writer and returned error) after the call
    mode,        \* the mode of the Comparison
    generated,   \* what Comparison.Generate returned
    summary,     \* what Comparison.GetSummary returned
    flags,       \* the --with and --mode flags of the compare command
    disk,        \* what the compare command finds on disk
    files,       \* the report files the compare command has written
    exit,        \* the error runCompare returned ("" is nil)
    algorithms,  \* the query configuration handed to RunAlgorithms
    failedBefore,\* the searches that fail in the previous run
    failedNow,   \* the searches that fail in the current run
    calls,       \* the calls made on one calculator, in order
    index,       \* the StoredIndex handed to Saver.SaveIndex
    folder,      \* the run folder: whether it can be written, and its files
    saved,       \* the error SaveIndex returned ("" is nil)
    loaded,      \* what Loader.Load returned
    spinner,     \* the Spinner
    caller,      \* where the goroutine that calls Start and Stop is
    animation,   \* where the goroutine of Start is, and its frame index
    terminal,    \* the latest outputs of spinners on the terminal
    visible      \* the values of s.message the goroutine's read can yield

vars == <<pc, curr, prev, hist, histSwapped, cross, crossSwapped, scored, avgScore,
          current, previous, options, fmt, mode, generated, summary,
          flags, disk, files, exit, algorithms, failedBefore, failedNow, calls,
          index, folder, saved, loaded, spinner, caller, animation, terminal, visible>>

calcVars == <<curr, prev, hist, histSwapped, cross, crossSwapped, scored, avgScore>>
fmtVars == <<current, previous, options, fmt>>
genVars == <<mode, generated, summary>>
cmdVars == <<flags, disk, files, exit>>
runVars == <<algorithms, failedBefore, failedNow>>
idxVars == <<index, folder, saved, loaded>>
spinVars == <<spinner, caller, animation, terminal, visible>>
otherVars == <<runVars, calls, idxVars, spinVars>>

\* The zero values the result variables hold before their call.
ZeroHist ==
    [Query |-> "", Algorithm |-> "", TotalResults |-> 0, NewResults |-> 0,
     RemovedCount |-> 0, ImprovedCount |-> 0, WorsedCount |-> 0, UnchangedCount |-> 0,
     AvgRankChange |-> FloatZero]

ZeroCross ==
    [Query1Name |-> "", Query2Name |-> "", CommonResults |-> 0, OnlyInQuery1 |-> 0,
     OnlyInQuery2 |-> 0, RankingDiffCount |-> 0, AvgRankingDiff |-> FloatZero]

DefaultOptions == Options(FALSE, FALSE, FALSE, 0)

\* The zero QueryResults.
NoQuery == QueryResults("", "", "", <<>>)

\* The inputs of the calculator: two QueryResults of one query, any two
\* result lists.
CalcInputs == {QueryResults("q", "alg", "", rs) : rs \in ResultLists}

\* The inputs of averageScore: result lists of every score sequence.
ScoredLists ==
    {ExecuteResults([i \in 1..Len(ss) |-> "/a"], ss) : ss \in SeqsUpTo(0..MaxScore, MaxLen)}

NoFormatter == NewFormatter(DefaultOptions, 0)

\* Nothing generated yet, no summary taken yet.
NoReport == [report |-> <<>>, err |-> "", buf |-> <<>>]
NoSummary == Summary("", 0, 0, 0, 0)

\* The compare command's flags as cobra leaves them when none is given.
DefaultFlags == [compareWith |-> "", compareMode |-> WordBoth]

\* The calculator takes no part in the run.
CalcIdle ==
    /\ curr = NoQuery
    /\ prev = NoQuery
    /\ hist = ZeroHist
    /\ histSwapped = ZeroHist
    /\ cross = ZeroCross
    /\ crossSwapped = ZeroCross
    /\ scored = <<>>
    /\ avgScore = FloatZero

\* No Comparison takes part in the run.
GenIdle ==
    /\ mode = ModeHistorical
    /\ generated = NoReport
    /\ summary = NoSummary

\* A disk with a configuration file and the results of the latest run only.
NoPreviousRun ==
    [config |-> TRUE, latest |-> TRUE, readable |-> TRUE, previous |-> FALSE,
     writable |-> TRUE]

\* The compare command takes no part in the run.
CmdIdle ==
    /\ flags = DefaultFlags
    /\ disk = NoPreviousRun
    /\ files = {}
    /\ exit = ""

\* No query configuration is run.
RunIdle ==
    /\ algorithms = <<>>
    /\ failedBefore = {}
    /\ failedNow = {}

\* No index is saved or loaded.
IdxIdle ==
    /\ index = NoIndex
    /\ folder = EmptyFolder({})
    /\ saved = ""
    /\ loaded = NotLoaded

\* No spinner is shown.
SpinIdle ==
    /\ spinner = NewSpinner("")
    /\ caller = "idle"
    /\ animation = NotAnimated
    /\ terminal = <<>>
    /\ visible = {}

\* Nothing else takes part in the run.
OtherIdle == RunIdle /\ calls = <<>> /\ IdxIdle /\ SpinIdle

\* ------------------------------------------- the calculator, call by call

\* A run either exercises the calculator on two drawn QueryResults and then
\* averageScore on the empty list, or averageScore on a drawn result list.
Init ==
    /\ \/ /\ pc = "start"
          /\ curr \in CalcInputs
          /\ prev \in CalcInputs
          /\ scored = <<>>
       \/ /\ pc = "score"
          /\ curr = NoQuery
          /\ prev = NoQuery
          /\ scored \in ScoredLists \ {<<>>}
    /\ hist = ZeroHist
    /\ histSwapped = ZeroHist
    /\ cross = ZeroCross
    /\ crossSwapped = ZeroCross
    /\ avgScore = FloatZero
    /\ current = <<>>
    /\ previous = <<>>
    /\ options = DefaultOptions
    /\ fmt = NoFormatter
    /\ GenIdle
    /\ CmdIdle
    /\ OtherIdle

CalcHistorical ==
    /\ pc = "start"
    /\ hist' = CalculateHistorical(curr, prev)
    /\ pc' = "historical"
    /\ UNCHANGED <<curr, prev, histSwapped, cross, crossSwapped, scored, avgScore>>
    /\ UNCHANGED fmtVars
    /\ UNCHANGED <<genVars, cmdVars, otherVars>>

CalcHistoricalSwapped ==
    /\ pc = "historical"
    /\ histSwapped' = CalculateHistorical(prev, curr)
    /\ pc' = "historical swapped"
    /\ UNCHANGED <<curr, prev, hist, cross, crossSwapped, scored, avgScore>>
    /\ UNCHANGED fmtVars
    /\ UNCHANGED <<genVars, cmdVars, otherVars>>

CalcCrossQuery ==
    /\ pc = "historical swapped"
    /\ cross' = CalculateCrossQuery(curr, prev)
    /\ pc' = "cross"
    /\ UNCHANGED <<curr, prev, hist, histSwapped, crossSwapped, scored, avgScore>>
    /\ UNCHANGED fmtVars
    /\ UNCHANGED <<genVars, cmdVars, otherVars>>

CalcCrossQuerySwapped ==
    /\ pc = "cross"
    /\ crossSwapped' = CalculateCrossQuery(prev, curr)
    /\ pc' = "cross swapped"
    /\ UNCHANGED <<curr, prev, hist, histSwapped, cross, scored, avgScore>>
    /\ UNCHANGED fmtVars
    /\ UNCHANGED <<genVars, cmdVars, otherVars>>

\* averageScore is called on the drawn list, or, at the end of a calculator
\* run, on the empty list.
AverageScore ==
    /\ pc \in {"score", "cross swapped"}
    /\ avgScore' = averageScore(scored)
    /\ pc' = IF pc = "score" THEN "scored" ELSE "done"
    /\ UNCHANGED <<curr, prev, hist, histSwapped, cross, crossSwapped, scored>>
    /\ UNCHANGED fmtVars
    /\ UNCHANGED <<genVars, cmdVars, otherVars>>

Next ==
    \/ CalcHistorical
    \/ CalcHistoricalSwapped
    \/ CalcCrossQuery
    \/ CalcCrossQuerySwapped
    \/ AverageScore

Spec == Init /\ [][Next]_vars

\* ------------------------------------------------ the formatter's inputs

QueryName(i) == "q" \o ToString(i)

\* A run of n queries whose result lists are a and b in turn (a for the odd
\* indices), each query under its own name.
Run(n, a, b) ==
    [i \in 1..n |-> QueryResults(QueryName(i), "alg", "", IF i % 2 = 1 THEN a ELSE b)]

\* The uri sequences of the result lists handed to the formatter.
ShownURIs == SeqsUpTo(URIs, MaxShown)

\* The result list of the uri sequence us; its first hit has the score top,
\* the others the score 0.
Shown(us, top) == ExecuteResults(us, [i \in 1..Len(us) |-> IF i = 1 THEN top ELSE 0])

\* Every comparison.Options: the three flags, and a MaxRankDisplay below,
\* inside and at the end of the range of list lengths.
AllOptions ==
    {Options(u, h, sc, k) : u \in BOOLEAN, h \in BOOLEAN, sc \in BOOLEAN,
                            k \in (-1)..MaxShown}

\* ---------------------------------------------- FormatHistorical, as a call

\* Two runs of the same n queries; the result lists of query i in the two
\* runs are any two lists (exchanged for the even i).  The score of the first
\* hit is 1 in the current run and 0 in the previous one, every other score is
\* 0: a result may keep its rank with or without a change of score.
InitHistorical ==
    /\ pc = "start"
    /\ \E n \in 1..MaxPairs, a \in ShownURIs, b \in ShownURIs :
            /\ current = Run(n, Shown(a, 1), Shown(b, 1))
            /\ previous = Run(n, Shown(b, 0), Shown(a, 0))
    /\ options \in AllOptions
    /\ fmt = NoFormatter
    /\ GenIdle
    /\ CmdIdle
    /\ curr = NoQuery
    /\ prev = NoQuery
    /\ hist = ZeroHist
    /\ histSwapped = ZeroHist
    /\ cross = ZeroCross
    /\ crossSwapped = ZeroCross
    /\ scored = <<>>
    /\ avgScore = FloatZero
    /\ OtherIdle

\* formatter := NewFormatter(&buf, options); formatter.FormatHistorical(...)
FormatHistoricalCall ==
    /\ pc = "start"
    /\ fmt' = FormatHistorical(NewFormatter(options, 0), current, previous)
    /\ pc' = "historical formatted"
    /\ UNCHANGED <<current, previous, options>>
    /\ UNCHANGED calcVars
    /\ UNCHANGED <<genVars, cmdVars, otherVars>>

NextHistorical == FormatHistoricalCall

SpecHistorical == InitHistorical /\ [][NextHistorical]_vars

\* ---------------------------------------------- FormatCrossQuery, as a call

\* The options FormatCrossQuery reads: ShowScores and MaxRankDisplay.
CrossOptions ==
    {Options(FALSE, FALSE, sc, k) : sc \in BOOLEAN, k \in (-1)..MaxShown}

\* A run of 0..MaxQueries queries over any two result lists.
InitCrossQuery ==
    /\ pc = "start"
    /\ \E n \in 0..MaxQueries :
         \E a \in ShownURIs, b \in ShownURIs : current = Run(n, Shown(a, 0), Shown(b, 0))
    /\ previous = <<>>
    /\ options \in CrossOptions
    /\ fmt = NoFormatter
    /\ GenIdle
    /\ CmdIdle
    /\ curr = NoQuery
    /\ prev = NoQuery
    /\ hist = ZeroHist
    /\ histSwapped = ZeroHist
    /\ cross = ZeroCross
    /\ crossSwapped = ZeroCross
    /\ scored = <<>>
    /\ avgScore = FloatZero
    /\ OtherIdle

\* formatter := NewFormatter(&buf, options); formatter.FormatCrossQuery(current)
FormatCrossQueryCall ==
    /\ pc = "start"
    /\ fmt' = FormatCrossQuery(NewFormatter(options, 0), current)
    /\ pc' = "cross formatted"
    /\ UNCHANGED <<current, previous, options>>
    /\ UNCHANGED calcVars
    /\ UNCHANGED <<genVars, cmdVars, otherVars>>

NextCrossQuery == FormatCrossQueryCall

SpecCrossQuery == InitCrossQuery /\ [][NextCrossQuery]_vars

\* ------------------------------------ Comparison.Generate and GetSummary

\* The uri lists of the runs handed to a Comparison.
GenLists == {<<>>, <<"/a", "/b">>, <<"/b", "/c">>}

\* A run of n queries under the algorithm alg, whose result lists are a and
\* b in turn; the first query carries a description.
GenRun(n, alg, a, b) ==
    [i \in 1..n |->
        QueryResults(QueryName(i), alg, IF i = 1 THEN "first query" ELSE "",
                     Shown(IF i % 2 = 1 THEN a ELSE b, 0))]

\* The runs a Comparison is built from: a current run of 0..MaxQueries
\* queries under one algorithm and a previous run of 0..MaxPairs queries
\* under another (none: no previous run).
GenInputs ==
    /\ \E n \in 0..MaxQueries, m \in 0..MaxPairs, a \in GenLists, b \in GenLists :
            /\ current = GenRun(n, "bm25 tuned", a, b)
            /\ previous = GenRun(m, "bm25", b, a)
    /\ fmt = NoFormatter
    /\ CalcIdle

\* comp := NewComparison(current, previous, options, mode)
InitGenerate ==
    /\ pc = "start"
    /\ GenInputs
    /\ options \in {HistoricalOptions, CrossQueryOptions}
    /\ mode \in Modes
    /\ generated = NoReport
    /\ summary = NoSummary
    /\ CmdIdle
    /\ OtherIdle

\* comp.Generate(), before or after comp.GetSummary()
GenerateCall ==
    /\ pc \in {"start", "summarised"}
    /\ generated' = Generate(NewComparison(current, previous, options, mode))
    /\ pc' = IF pc = "start" THEN "generated" ELSE "generated and summarised"
    /\ UNCHANGED <<mode, summary>>
    /\ UNCHANGED <<calcVars, fmtVars, cmdVars, otherVars>>

\* comp.GetSummary(), before or after comp.Generate()
GetSummaryCall ==
    /\ pc \in {"start", "generated"}
    /\ summary' = GetSummary(NewComparison(current, previous, options, mode))
    /\ pc' = IF pc = "start" THEN "summarised" ELSE "generated and summarised"
    /\ UNCHANGED <<mode, generated>>
    /\ UNCHANGED <<calcVars, fmtVars, cmdVars, otherVars>>

NextGenerate ==
    \/ GenerateCall
    \/ GetSummaryCall

SpecGenerate == InitGenerate /\ [][NextGenerate]_vars

\* ------------------------------------------------ the compare command

\* The values of --mode: the three modes under their names; "all", which is
\* none of them; " Historical" followed by a vertical tab; a no-break space
\* and "historical" written with U+0130, the capital I with a dot, which
\* lowers to i; "CROSSQUERY"; and "both" written with the Greek capital
\* omicron (U+039F), which lowers to the Greek small omicron.
ModeFlags ==
    {WordHistorical, WordCrossQuery, WordBoth, <<97, 108, 108>>,
     <<32, 72, 105, 115, 116, 111, 114, 105, 99, 97, 108, 11>>,
     <<160, 104, 304, 115, 116, 111, 114, 105, 99, 97, 108>>,
     <<67, 82, 79, 83, 83, 81, 85, 69, 82, 89>>,
     <<98, 927, 116, 104>>}

\* The flags of the command: no --with, one that names a results file and
\* one that names no file; any of the mode values.
AllFlags ==
    [compareWith : {"", "with.json", MissingPath},
     compareMode : ModeFlags]

\* What the command may find: a configuration or none, a latest run or
\* none, whose results file can be read or not, an older run or none, a run
\* folder it can or cannot write to.
Disks ==
    [config : BOOLEAN, latest : BOOLEAN, readable : BOOLEAN, previous : BOOLEAN,
     writable : BOOLEAN]

\* The result files of the command: the latest run holds 0..MaxQueries
\* queries under one algorithm, the older run 0..MaxPairs queries under
\* another.
CompareInputs ==
    /\ \E n \in 0..MaxQueries, m \in 0..MaxPairs :
            /\ current = GenRun(n, "bm25 tuned", <<"/a", "/b">>, <<"/b", "/c">>)
            /\ previous = GenRun(m, "bm25", <<"/b", "/c">>, <<"/a", "/b">>)
    /\ fmt = NoFormatter
    /\ CalcIdle

\* current is what the results file of the latest run holds, previous what
\* the file of the older run, or the one --with names, holds.
InitCompare ==
    /\ pc = "start"
    /\ CompareInputs
    /\ options = DefaultOptions
    /\ GenIdle
    /\ flags \in AllFlags
    /\ disk \in Disks
    /\ files = {}
    /\ exit = ""
    /\ OtherIdle

\* The steps of the compare command.  pc tells where runCompare is: at its
\* start, about to call generateHistoricalComparison ("historical") or
\* generateCrossQueryComparison ("cross-query"), inside one of them while
\* comp.Generate() runs (": Generate") or from the call of spinner.Stop() to
\* the write of the report (": Stop"), or returned ("compared").  mode and
\* generated hold the local variables mode and report, err.

\* runCompare from its first line to its switch over the mode: the
\* configuration and the results are found and loaded; the flag variable
\* compareWith keeps the path of the previous run once that is found.
runCompare ==
    /\ pc = "start"
    /\ \E err \in {LoadError(flags, disk)} :
          /\ exit' = err
          /\ pc' = IF err # "" THEN "compared"
                   ELSE IF ModeAfter(flags, disk) = ModeCrossQuery THEN "cross-query"
                   ELSE "historical"
    /\ IF disk.config /\ disk.latest /\ disk.readable
       THEN /\ flags' = [flags EXCEPT !.compareWith = CompareWithAfter(flags, disk)]
            /\ mode' = ModeAfter(flags, disk)
       ELSE UNCHANGED <<flags, mode>>
    /\ UNCHANGED <<disk, files, generated, summary>>
    /\ UNCHANGED <<calcVars, fmtVars, otherVars>>

\* spinner := ui.NewSpinner(message); spinner.Start(): a new spinner and a
\* new goroutine; the goroutine of the spinner before has returned.
NewSpinnerStarts(message) ==
    /\ spinner' = [NewSpinner(message) EXCEPT !.active = TRUE]
    /\ animation' = [pc |-> "select", i |-> 0]
    /\ caller' = "started"
    /\ visible' = {message}
    /\ UNCHANGED terminal

\* generateHistoricalComparison up to spinner.Start(): without previous
\* results it returns nil at once.
generateHistoricalComparison ==
    /\ pc = "historical"
    /\ IF Len(PreviousLoaded(flags, disk, previous)) = 0
       THEN /\ pc' = IF mode = ModeHistorical THEN "compared" ELSE "cross-query"
            /\ UNCHANGED spinVars
       ELSE /\ pc' = "historical: Generate"
            /\ NewSpinnerStarts(ReportNames.historical.message)
    /\ UNCHANGED <<cmdVars, genVars>>
    /\ UNCHANGED <<calcVars, fmtVars, runVars, calls, idxVars>>

\* generateCrossQueryComparison up to spinner.Start(): with fewer than 2
\* queries it returns nil at once.
generateCrossQueryComparison ==
    /\ pc = "cross-query"
    /\ IF Len(current) < 2
       THEN /\ pc' = "compared"
            /\ UNCHANGED spinVars
       ELSE /\ pc' = "cross-query: Generate"
            /\ NewSpinnerStarts(ReportNames.crossQuery.message)
    /\ UNCHANGED <<cmdVars, genVars>>
    /\ UNCHANGED <<calcVars, fmtVars, runVars, calls, idxVars>>

\* report, err := comp.Generate() returns, while the goroutine of the
\* spinner has been running; spinner.Stop() is called whatever err is.
GenerateReturns ==
    /\ pc \in {"historical: Generate", "cross-query: Generate"}
    /\ caller = "started"
    /\ generated' =
          Generate(IF pc = "historical: Generate"
                   THEN NewComparison(current, PreviousLoaded(flags, disk, previous),
                                      HistoricalOptions, ModeHistorical)
                   ELSE NewComparison(current, <<>>, CrossQueryOptions, ModeCrossQuery))
    /\ caller' = "Stop: active"
    /\ pc' = IF pc = "historical: Generate" THEN "historical: Stop" ELSE "cross-query: Stop"
    /\ UNCHANGED <<mode, summary, spinner, animation, terminal, visible>>
    /\ UNCHANGED <<cmdVars, calcVars, fmtVars, runVars, calls, idxVars>>

\* After spinner.Stop() has returned: the error of Generate is returned;
\* without one output.WriteText writes the report, which may fail; the
\* historical report is followed by comp.GetSummary() and, in both mode, by
\* generateCrossQueryComparison.
WriteText ==
    /\ pc \in {"historical: Stop", "cross-query: Stop"}
    /\ caller = "returned"
    /\ \E r \in {IF pc = "historical: Stop" THEN ReportNames.historical
                 ELSE ReportNames.crossQuery} :
          IF generated.err # ""
          THEN /\ exit' = "failed to generate " \o r.what \o ": " \o generated.err
               /\ pc' = "compared"
               /\ UNCHANGED <<files, summary>>
          ELSE IF ~disk.writable
          THEN /\ exit' = "failed to write " \o r.what
               /\ pc' = "compared"
               /\ UNCHANGED <<files, summary>>
          ELSE /\ files' = files \cup {[name |-> r.file, content |-> generated.report]}
               /\ summary' =
                     IF pc = "historical: Stop"
                     THEN GetSummary(NewComparison(current,
                                                   PreviousLoaded(flags, disk, previous),
                                                   HistoricalOptions, ModeHistorical))
                     ELSE summary
               /\ pc' = IF pc = "historical: Stop" /\ mode = ModeBoth THEN "cross-query"
                        ELSE "compared"
               /\ UNCHANGED exit
    /\ UNCHANGED <<flags, disk, mode, generated>>
    /\ UNCHANGED <<calcVars, fmtVars, otherVars>>

\* ------------------------------------------- two runs of one configuration

\* The es_query of a query in the configuration file: none, one without a
\* size, one whose size is null, one with a size.
ESQueries ==
    {NilMap, MapOf([query |-> <<"match_all">>]),
     MapOf([query |-> <<"match_all">>, size |-> Nil]),
     MapOf([query |-> <<"match_all">>, size |-> <<5>>])}

\* The query configurations: 1..MaxAlgorithms algorithms, each over the
\* same 1..MaxPairs queries; the first query has any es_query, the others
\* one without a size.
QueryConfigurations ==
    {[a \in 1..n |->
         AlgorithmConfig("alg" \o ToString(a),
                         [q \in 1..k |->
                             QueryConfig(QueryName(q), "",
                                         IF q = 1 THEN es
                                         ELSE MapOf([query |-> <<"match_all">>]))])] :
     n \in 1..MaxAlgorithms, k \in 1..MaxPairs, es \in ESQueries}

\* The searches of a configuration, as pairs <<algorithm index, query index>>.
Searches(algs) ==
    {s \in (DOMAIN algs) \X (1..MaxPairs) : s[2] <= Len(algs[s[1]].Queries)}

\* The sets of searches that may fail in one run: at most MaxFailed of them.
FailingSets(algs) == {F \in SUBSET Searches(algs) : Cardinality(F) <= MaxFailed}

\* The hits every search of the previous run and of the current run returns.
HitsBefore == <<"/a", "/b">>
HitsNow == <<"/b", "/a">>

\* One query configuration, run twice; in each run some searches may fail.
InitRun ==
    /\ pc = "start"
    /\ algorithms \in QueryConfigurations
    /\ failedBefore \in FailingSets(algorithms)
    /\ failedNow \in FailingSets(algorithms)
    /\ current = <<>>
    /\ previous = <<>>
    /\ options = HistoricalOptions
    /\ fmt = NoFormatter
    /\ CalcIdle
    /\ GenIdle
    /\ CmdIdle
    /\ calls = <<>>
    /\ IdxIdle
    /\ SpinIdle

\* The earlier run: runner.RunAlgorithms(ctx, algorithms), kept as the
\* previous results.
RunBefore ==
    /\ pc = "start"
    /\ \E run \in {RunAlgorithms(algorithms, failedBefore, HitsBefore)} :
          /\ algorithms' = run.algorithms
          /\ IF run.panic # ""
             THEN pc' = "panic: " \o run.panic /\ UNCHANGED previous
             ELSE pc' = "ran before" /\ previous' = run.allResults
    /\ UNCHANGED <<current, options, fmt, failedBefore, failedNow>>
    /\ UNCHANGED <<calcVars, genVars, cmdVars, calls, idxVars, spinVars>>

\* The latest run: runner.RunAlgorithms(ctx, algorithms) on the same
\* configuration.
RunNow ==
    /\ pc = "ran before"
    /\ \E run \in {RunAlgorithms(algorithms, failedNow, HitsNow)} :
          /\ algorithms' = run.algorithms
          /\ IF run.panic # ""
             THEN pc' = "panic: " \o run.panic /\ UNCHANGED current
             ELSE pc' = "ran" /\ current' = run.allResults
    /\ UNCHANGED <<previous, options, fmt, failedBefore, failedNow>>
    /\ UNCHANGED <<calcVars, genVars, cmdVars, calls, idxVars, spinVars>>

\* The historical comparison of the two runs.
FormatRuns ==
    /\ pc = "ran"
    /\ fmt' = FormatHistorical(NewFormatter(options, 0), current, previous)
    /\ pc' = "runs formatted"
    /\ UNCHANGED <<current, previous, options>>
    /\ UNCHANGED <<calcVars, genVars, cmdVars, runVars, calls, idxVars, spinVars>>

NextRun ==
    \/ RunBefore
    \/ RunNow
    \/ FormatRuns

SpecRun == InitRun /\ [][NextRun]_vars

\* ------------------------------------------------- a writer that fails

\* The two runs handed to a formatter whose writer fails: 0..MaxPairs
\* queries in each, over the lists of GenLists.
InitFailing ==
    /\ pc = "start"
    /\ \E n \in 0..MaxPairs, a \in GenLists, b \in GenLists :
            /\ current = GenRun(n, "bm25 tuned", a, b)
            /\ previous = GenRun(n, "bm25", b, a)
    /\ options \in {HistoricalOptions, CrossQueryOptions}
    /\ fmt = NoFormatter
    /\ mode \in Modes
    /\ generated = NoReport
    /\ summary = NoSummary
    /\ CalcIdle
    /\ CmdIdle
    /\ OtherIdle

\* NewFormatter(w, options).FormatHistorical(current, previous) on a writer
\* w whose k-th Write returns an error.
FormatHistoricalFailing ==
    /\ pc = "start"
    /\ \E k \in 1..MaxFailAt :
          fmt' = FormatHistorical(NewFormatter(options, k), current, previous)
    /\ pc' = "historical formatted"
    /\ UNCHANGED <<current, previous, options>>
    /\ UNCHANGED <<calcVars, genVars, cmdVars, otherVars>>

\* NewFormatter(w, options).FormatCrossQuery(current) on such a writer.
FormatCrossQueryFailing ==
    /\ pc = "start"
    /\ \E k \in 1..MaxFailAt :
          fmt' = FormatCrossQuery(NewFormatter(options, k), current)
    /\ pc' = "cross formatted"
    /\ UNCHANGED <<current, previous, options>>
    /\ UNCHANGED <<calcVars, genVars, cmdVars, otherVars>>

\* The formatter calls on a failing writer, and Comparison.Generate, which
\* formats into its own buffer.
NextFailing ==
    \/ FormatHistoricalFailing
    \/ FormatCrossQueryFailing
    \/ GenerateCall

SpecFailing == InitFailing /\ [][NextFailing]_vars

\* ------------------------------------------- one calculator, many calls

\* Two result lists of up to MaxShown results and a new calculator.
InitCalls ==
    /\ pc = "start"
    /\ curr \in {QueryResults("q", "alg", "", Shown(us, 0)) : us \in ShownURIs}
    /\ prev \in {QueryResults("q", "alg", "", Shown(us, 0)) : us \in ShownURIs}
    /\ hist = ZeroHist
    /\ histSwapped = ZeroHist
    /\ cross = ZeroCross
    /\ crossSwapped = ZeroCross
    /\ scored = <<>>
    /\ avgScore = FloatZero
    /\ current = <<>>
    /\ previous = <<>>
    /\ options = DefaultOptions
    /\ fmt = NoFormatter
    /\ GenIdle
    /\ CmdIdle
    /\ RunIdle
    /\ calls = <<>>
    /\ IdxIdle
    /\ SpinIdle

\* calc.CalculateHistorical(curr, prev) on the lists as the calls before
\* left them.
CallHistorical ==
    /\ Len(calls) < MaxCalls
    /\ \E call \in {CalculatorCall("CalculateHistorical", curr, prev)} :
          /\ calls' = Append(calls, call)
          /\ curr' = call.left[1]
          /\ prev' = call.left[2]
          /\ hist' = call.stats
    /\ pc' = "called"
    /\ UNCHANGED <<histSwapped, cross, crossSwapped, scored, avgScore>>
    /\ UNCHANGED <<fmtVars, genVars, cmdVars, runVars, idxVars, spinVars>>

\* calc.CalculateCrossQuery(curr, prev) on the lists as the calls before
\* left them.
CallCrossQuery ==
    /\ Len(calls) < MaxCalls
    /\ \E call \in {CalculatorCall("CalculateCrossQuery", curr, prev)} :
          /\ calls' = Append(calls, call)
          /\ curr' = call.left[1]
          /\ prev' = call.left[2]
          /\ cross' = call.stats
    /\ pc' = "called"
    /\ UNCHANGED <<hist, histSwapped, crossSwapped, scored, avgScore>>
    /\ UNCHANGED <<fmtVars, genVars, cmdVars, runVars, idxVars, spinVars>>

NextCalls ==
    \/ CallHistorical
    \/ CallCrossQuery

SpecCalls == InitCalls /\ [][NextCalls]_vars

\* ------------------------------------------- saving and loading an index

\* The strings drawn for the titles of an index, and the shorter ones drawn
\* for the name of its source index.
IndexStrings == SeqsUpTo(Chars, MaxChars)
SourceStrings == SeqsUpTo(Chars, MaxChars - 1)

\* The times drawn for GeneratedAt: a time.Now(), with its monotonic
\* reading, in a zone 1 h 0 min 30 s west of UTC; a time in the year 10000
\* and one in a zone 24 h east of UTC, neither of which RFC 3339 can write.
Times ==
    {Time(2026, 100000, 0 - 3630, 5), Time(10000, 100000, 0, 0),
     Time(2026, 100000, 86400, 0)}

\* The digit of a number of 0..9, as a character.
Digit(n) == 48 + n

\* The indexes handed to SaveIndex: version "2.0", any source index name,
\* and 0..MaxDocs documents numbered from 1 (id "1", uri "/1", content type
\* "t") that share any title.
Indexes ==
    {StoredIndex(time, <<Digit(2), 46, Digit(0)>>, source,
                 [i \in 1..n |-> Document(<<Digit(i)>>, title, <<Rune.Slash, Digit(i)>>,
                                         <<>>, <<Escape.t>>, <<>>)]) :
     time \in Times, source \in SourceStrings, title \in IndexStrings, n \in 0..MaxDocs}

\* An index.json written by hand, of version "1" and without documents,
\* whose source index name is the given text.
WrittenByHand(text) ==
    JSONFile("index.json",
             [generated_at |-> MarshalTime(Time(2025, 0, 0, 0)),
              version |-> <<Digit(1)>>, source_index |-> text, documents |-> <<>>])

\* The source index names written by hand: a byte that is no valid UTF-8;
\* the escapes of A, of the line feed, of the slash and of a surrogate pair
\* and a surrogate without its other half; a tab that is not escaped, which
\* is no JSON.
HandTexts ==
    {<<Rune.InvalidByte>>,
     <<Rune.Backslash, Escape.u, 48, 48, 52, 49, Rune.Backslash, Escape.n,
       Rune.Backslash, Rune.Slash,
       Rune.Backslash, Escape.u, 68, 56, 51, 68, Rune.Backslash, Escape.u, 68, 69, 48, 48,
       Rune.Backslash, Escape.u, 100, 56, 48, 48>>,
     <<Rune.Letter, Rune.Tab>>}

\* The run folders: empty or holding an index.json written by hand, with
\* any of the two files of SaveIndex not writable.
Folders ==
    {Folder(blocked, held) :
        blocked \in SUBSET {"index.json", "metadata.txt"},
        held \in {{}} \cup {{WrittenByHand(text)} : text \in HandTexts}}

InitIndex ==
    /\ pc = "start"
    /\ index \in Indexes
    /\ folder \in Folders
    /\ saved = ""
    /\ loaded = NotLoaded
    /\ current = <<>>
    /\ previous = <<>>
    /\ options = DefaultOptions
    /\ fmt = NoFormatter
    /\ CalcIdle
    /\ GenIdle
    /\ CmdIdle
    /\ RunIdle
    /\ calls = <<>>
    /\ SpinIdle

\* NewSaver(runFolder).SaveIndex(index)
SaveIndexCall ==
    /\ pc = "start"
    /\ \E o \in {SaveIndex(folder, index)} :
          /\ folder' = o.folder
          /\ saved' = o.err
    /\ pc' = "saved"
    /\ UNCHANGED <<index, loaded>>
    /\ UNCHANGED <<calcVars, fmtVars, genVars, cmdVars, runVars, calls, spinVars>>

\* NewLoader().Load(path) of a file of the run folder
LoadCall ==
    /\ pc = "saved"
    /\ \E name \in {"index.json", "metadata.txt"} : loaded' = Load(folder, name)
    /\ pc' = "loaded"
    /\ UNCHANGED <<index, folder, saved>>
    /\ UNCHANGED <<calcVars, fmtVars, genVars, cmdVars, runVars, calls, spinVars>>

NextIndex ==
    \/ SaveIndexCall
    \/ LoadCall

SpecIndex == InitIndex /\ [][NextIndex]_vars

\* ------------------------------------------- the legacy report, as a call

\* Two runs of the same n queries, as for FormatHistorical, and no query at
\* all.
InitDiff ==
    /\ pc = "start"
    /\ \E n \in 0..MaxPairs, a \in ShownURIs, b \in ShownURIs :
            /\ current = Run(n, Shown(a, 1), Shown(b, 1))
            /\ previous = Run(n, Shown(b, 0), Shown(a, 0))
    /\ options \in AllOptions
    /\ fmt = NoFormatter
    /\ CalcIdle
    /\ GenIdle
    /\ CmdIdle
    /\ OtherIdle

\* Generate(f, allResults, previous, opts) of the query command, on a file
\* none of whose writes fails (0) or one of whose writes fails.
DiffGenerateCall ==
    /\ pc = "start"
    /\ \E failAt \in 0..MaxFailAt :
          fmt' = DiffGenerate(NewFormatter(options, failAt), current, previous)
    /\ pc' = "legacy report"
    /\ UNCHANGED <<current, previous, options>>
    /\ UNCHANGED <<calcVars, genVars, cmdVars, otherVars>>

\* The modes handed to GenerateWithMode: the three modes and a value that
\* is none of them.
DiffModes == Modes \cup {ModeBoth + 1}

\* GenerateWithMode(w, current, previous, opts, mode)
DiffGenerateWithModeCall ==
    /\ pc = "start"
    /\ \E m \in DiffModes :
          /\ mode' = m
          /\ fmt' = GenerateWithMode(NewFormatter(options, 0), current, previous, m)
    /\ pc' = "legacy report in mode"
    /\ UNCHANGED <<current, previous, options, generated, summary>>
    /\ UNCHANGED <<calcVars, cmdVars, otherVars>>

NextDiff ==
    \/ DiffGenerateCall
    \/ DiffGenerateWithModeCall

SpecDiff == InitDiff /\ [][NextDiff]_vars

\* ------------------------------------------- the spinner and its goroutine

\* The messages the commands hand to NewSpinner and to UpdateMessage.
Messages ==
    {"Generating historical comparison report...",
     "Generating cross-query comparison report..."}

\* spinner := ui.NewSpinner(message)
InitSpinner ==
    /\ pc = "spinner"
    /\ \E m \in Messages : spinner = NewSpinner(m)
    /\ caller = "constructed"
    /\ animation = NotAnimated
    /\ terminal = <<>>
    /\ visible = {}
    /\ current = <<>>
    /\ previous = <<>>
    /\ options = DefaultOptions
    /\ fmt = NoFormatter
    /\ CalcIdle
    /\ GenIdle
    /\ CmdIdle
    /\ RunIdle
    /\ calls = <<>>
    /\ IdxIdle

\* spinner.Start(): s.active = true, then the go statement.
Start ==
    /\ caller = "constructed"
    /\ spinner' = [spinner EXCEPT !.active = TRUE]
    /\ animation' = [pc |-> "select", i |-> 0]
    /\ caller' = "started"
    /\ visible' = {spinner.message}
    /\ UNCHANGED terminal

\* spinner.UpdateMessage(message), by the goroutine that calls Start and
\* Stop, whenever it is not inside one of them.
UpdateMessage ==
    /\ caller \in {"constructed", "started", "returned"}
    /\ \E m \in Messages :
          /\ spinner' = [spinner EXCEPT !.message = m]
          /\ visible' = IF caller = "started" THEN visible \cup {m} ELSE visible
    /\ UNCHANGED <<caller, animation, terminal>>

\* spinner.Stop() is called, once the work between Start and Stop is done.
StopCalled ==
    /\ caller = "started"
    /\ caller' = "Stop: active"
    /\ UNCHANGED <<spinner, animation, terminal, visible>>

\* s.active = false
StopWritesActive ==
    /\ caller = "Stop: active"
    /\ spinner' = [spinner EXCEPT !.active = FALSE]
    /\ caller' = "Stop: done"
    /\ UNCHANGED <<animation, terminal, visible>>

\* s.done <- true: the sender waits on the unbuffered channel.
StopSends ==
    /\ caller = "Stop: done"
    /\ spinner.done = "empty"
    /\ spinner' = [spinner EXCEPT !.done = "sender waiting"]
    /\ UNCHANGED <<caller, animation, terminal, visible>>

\* fmt.Print("\r\033[K"), after the send has been received.
StopClears ==
    /\ caller = "Stop: clear"
    /\ terminal' = Stdout(terminal, ClearLine)
    /\ caller' = "returned"
    /\ UNCHANGED <<spinner, animation, visible>>

\* The goroutine's select: a receive releases the sender.
AnimationSelects ==
    /\ animation.pc = "select"
    /\ \E o \in {select(spinner)} :
          /\ animation' = [animation EXCEPT !.pc = o.pc]
          /\ IF o.received
             THEN /\ spinner' = [spinner EXCEPT !.done = "empty"]
                  /\ caller' = "Stop: clear"
             ELSE UNCHANGED <<spinner, caller>>
    /\ UNCHANGED <<terminal, visible>>

\* if s.active
AnimationReadsActive ==
    /\ animation.pc = "default"
    /\ \E active \in ReadActive(spinner, caller = "Stop: done") :
          animation' = [animation EXCEPT !.pc = IF active THEN "Printf" ELSE "select"]
    /\ UNCHANGED <<spinner, caller, terminal, visible>>

\* fmt.Printf("\r%s %s", frames[i], s.message); i = (i + 1) % len(frames)
AnimationPrints ==
    /\ animation.pc = "Printf"
    /\ \E message \in ReadMessage(visible) :
          terminal' = Stdout(terminal, FrameText(message, animation.i))
    /\ animation' = [pc |-> "Sleep", i |-> (animation.i + 1) % Len(Frames)]
    /\ UNCHANGED <<spinner, caller, visible>>

\* time.Sleep(80 * time.Millisecond)
AnimationSleeps ==
    /\ animation.pc = "Sleep"
    /\ animation' = [animation EXCEPT !.pc = "select"]
    /\ UNCHANGED <<spinner, caller, terminal, visible>>

\* The steps of Stop, and the steps of the goroutine.
Stop == StopWritesActive \/ StopSends \/ StopClears
Animation ==
    AnimationSelects \/ AnimationReadsActive \/ AnimationPrints \/ AnimationSleeps

NextSpinner ==
    /\ Start \/ UpdateMessage \/ StopCalled \/ StopWritesActive \/ StopSends \/ StopClears
         \/ AnimationSelects \/ AnimationReadsActive \/ AnimationPrints
         \/ AnimationSleeps
    /\ UNCHANGED <<pc, calcVars, fmtVars, genVars, cmdVars, runVars, calls, idxVars>>

SpecSpinner == InitSpinner /\ [][NextSpinner]_vars

\* The scheduler runs every goroutine that can run: the goroutine of Start
\* never blocks, and Stop blocks only in its send, which the goroutine's
\* select releases.
SpecSpinnerFair ==
    /\ SpecSpinner
    /\ WF_vars(NextSpinner /\ Stop)
    /\ WF_vars(NextSpinner /\ Animation)

\* ------------------------------------- the compare command and its spinners

\* The steps of runCompare, and between them the steps of the Stop it has
\* called and of the goroutine of the spinner it has started.
NextCompare ==
    \/ runCompare
    \/ generateHistoricalComparison
    \/ generateCrossQueryComparison
    \/ GenerateReturns
    \/ WriteText
    \/ /\ StopWritesActive \/ StopSends \/ StopClears
          \/ AnimationSelects \/ AnimationReadsActive \/ AnimationPrints
          \/ AnimationSleeps
       /\ UNCHANGED <<pc, calcVars, fmtVars, genVars, cmdVars, runVars, calls, idxVars>>

SpecCompare == InitCompare /\ [][NextCompare]_vars

\* ---------------------------------------------------------------- claims

\* The calls whose results the state holds.
HistDone == pc \in {"historical", "historical swapped", "cross", "cross swapped", "done"}
HistSwappedDone == pc \in {"historical swapped", "cross", "cross swapped", "done"}
CrossDone == pc \in {"cross", "cross swapped", "done"}
ScoreDone == pc \in {"scored", "done"}

\* Some uri occurs twice in the list.
Repeats(results) ==
    \E i, j \in DOMAIN results : i # j /\ results[i].URI = results[j].URI

\* The uri occurs in the list.
Occurs(uri, results) == \E k \in DOMAIN results : results[k].URI = uri

\* The rank of the last result of the list that carries the uri.
LastRank(uri, results) ==
    LET k == CHOOSE k \in DOMAIN results :
                /\ results[k].URI = uri
                /\ \A m \in DOMAIN results : results[m].URI = uri => m <= k
    IN results[k].Rank

\* previous.rank - current.rank of the current item i.
RankChangeOf(i, c, p) == LastRank(c[i].URI, p) - c[i].Rank

\* The current items that also exist in previous.
MatchedItems(c, p) == {i \in DOMAIN c : Occurs(c[i].URI, p)}

RECURSIVE SumAbsChange(_, _, _)
SumAbsChange(items, c, p) ==
    IF items = {} THEN 0
    ELSE LET i == CHOOSE i \in items : TRUE
         IN Abs(RankChangeOf(i, c, p)) + SumAbsChange(items \ {i}, c, p)

\* C1: the four class counts of CalculateHistorical add up to the number of
\* current results, which is TotalResults, for every pair of lists (empty
\* lists and repeated uris included), whichever list is the current one.
C1_Conservation ==
    /\ HistDone =>
         /\ hist.ImprovedCount + hist.WorsedCount + hist.UnchangedCount + hist.NewResults
              = Len(curr.Results)
         /\ hist.TotalResults = Len(curr.Results)
    /\ HistSwappedDone =>
         /\ histSwapped.ImprovedCount + histSwapped.WorsedCount
              + histSwapped.UnchangedCount + histSwapped.NewResults
              = Len(prev.Results)
         /\ histSwapped.TotalResults = Len(prev.Results)

\* C1: a current list that repeats a uri, with a new, a worsened and an
\* unchanged result.
C1_Witness ==
    /\ HistDone
    /\ Repeats(curr.Results)
    /\ hist.NewResults > 0
    /\ hist.WorsedCount > 0
    /\ hist.UnchangedCount > 0

\* C2: NewResults of CalculateHistorical(A, B) is RemovedCount of
\* CalculateHistorical(B, A), and the other way round.
C2_NewIsRemovedSwapped ==
    HistSwappedDone =>
        /\ hist.NewResults = histSwapped.RemovedCount
        /\ histSwapped.NewResults = hist.RemovedCount

\* C2: both calls made, and the current list holds the same new uri twice.
C2_Witness ==
    /\ HistSwappedDone
    /\ hist.NewResults >= 2
    /\ \E i, j \in DOMAIN curr.Results :
          /\ i # j
          /\ curr.Results[i].URI = curr.Results[j].URI
          /\ ~Occurs(curr.Results[i].URI, prev.Results)
    /\ hist.RemovedCount >= 1

\* C3: a current item found in previous is improved, worsened or unchanged as
\* previous.rank - current.rank is positive, negative or zero; a current item
\* absent from previous is new and a previous item absent from current is
\* removed.  current = [/a, /b], previous = [/b, /c] gives new 1, removed 1,
\* worsened 1, improved 0, unchanged 0.
C3_Classification ==
    HistDone =>
        LET c == curr.Results
            p == prev.Results
            m == MatchedItems(c, p)
        IN /\ hist.ImprovedCount = Cardinality({i \in m : RankChangeOf(i, c, p) > 0})
           /\ hist.WorsedCount = Cardinality({i \in m : RankChangeOf(i, c, p) < 0})
           /\ hist.UnchangedCount = Cardinality({i \in m : RankChangeOf(i, c, p) = 0})
           /\ hist.NewResults = Cardinality((DOMAIN c) \ m)
           /\ hist.RemovedCount = Cardinality({k \in DOMAIN p : ~Occurs(p[k].URI, c)})
           /\ ([i \in DOMAIN c |-> c[i].URI] = <<"/a", "/b">>
                 /\ [k \in DOMAIN p |-> p[k].URI] = <<"/b", "/c">>)
              => /\ hist.NewResults = 1
                 /\ hist.RemovedCount = 1
                 /\ hist.WorsedCount = 1
                 /\ hist.ImprovedCount = 0
                 /\ hist.UnchangedCount = 0

\* C3: the scenario current = [/a, /b], previous = [/b, /c] has been
\* calculated.
C3_Witness ==
    /\ HistDone
    /\ [i \in DOMAIN curr.Results |-> curr.Results[i].URI] = <<"/a", "/b">>
    /\ [k \in DOMAIN prev.Results |-> prev.Results[k].URI] = <<"/b", "/c">>
    /\ hist.WorsedCount = 1

\* C4: AvgRankChange is the sum of |previous.rank - current.rank| divided by
\* the number of current items that exist in previous (0 when there is none).
C4_AvgOverMatched ==
    HistDone =>
        LET m == MatchedItems(curr.Results, prev.Results)
        IN hist.AvgRankChange =
             IF m = {} THEN FloatZero
             ELSE FloatDiv(SumAbsChange(m, curr.Results, prev.Results), Cardinality(m))

\* C5 as stated: for any list L, CalculateHistorical(L, L) counts every result
\* as unchanged and has a zero average.
C5_IdenticalAnyList ==
    (HistDone /\ curr.Results = prev.Results) =>
        /\ hist.ImprovedCount = 0
        /\ hist.WorsedCount = 0
        /\ hist.NewResults = 0
        /\ hist.RemovedCount = 0
        /\ hist.UnchangedCount = Len(curr.Results)
        /\ hist.AvgRankChange = FloatZero

\* C5 amended: for any list L in which no uri is repeated,
\* CalculateHistorical(L, L) counts every result as unchanged, nothing as
\* improved, worsened, new or removed, and has a zero average.
C5_IdenticalNoRepeat ==
    (HistDone /\ curr.Results = prev.Results /\ ~Repeats(curr.Results)) =>
        /\ hist.ImprovedCount = 0
        /\ hist.WorsedCount = 0
        /\ hist.NewResults = 0
        /\ hist.RemovedCount = 0
        /\ hist.UnchangedCount = Len(curr.Results)
        /\ hist.AvgRankChange = FloatZero

\* C5: a list of MaxLen different uris compared with itself.
C5_Witness ==
    /\ HistDone
    /\ curr.Results = prev.Results
    /\ ~Repeats(curr.Results)
    /\ Len(curr.Results) >= 3
    /\ hist.UnchangedCount = Len(curr.Results)

\* C6: every average is a finite number, and it is 0 where its divisor would
\* be 0: AvgRankChange for an empty current list, AvgRankingDiff when no
\* common result differs in rank, averageScore of an empty list.
C6_NoDivisionByZero ==
    /\ HistDone =>
         /\ IsFinite(hist.AvgRankChange)
         /\ Len(curr.Results) = 0 => hist.AvgRankChange = FloatZero
    /\ HistSwappedDone =>
         /\ IsFinite(histSwapped.AvgRankChange)
         /\ Len(prev.Results) = 0 => histSwapped.AvgRankChange = FloatZero
    /\ CrossDone =>
         /\ IsFinite(cross.AvgRankingDiff)
         /\ cross.RankingDiffCount = 0 => cross.AvgRankingDiff = FloatZero
    /\ ScoreDone =>
         /\ IsFinite(avgScore)
         /\ Len(scored) = 0 => avgScore = FloatZero

\* C6: all three averages were taken over nothing: the current list is empty
\* while previous is not, no common result differs in rank, and averageScore
\* was called on the empty list.
C6_Witness ==
    /\ pc = "done"
    /\ Len(curr.Results) = 0
    /\ Len(prev.Results) > 0
    /\ cross.RankingDiffCount = 0
    /\ Len(scored) = 0
    /\ avgScore = FloatZero

\* --------------------------------------------------- reading the report

\* The lines written while the section of the pair (i, j) was formatted.
SectionLines(i, j) ==
    LET InPair(l) == l.sec = <<i, j>> IN SelectSeq(fmt.out, InPair)

\* The lines of the kind, in order.
OfKind(lines, kind) ==
    LET IsKind(l) == l.kind = kind IN SelectSeq(lines, IsKind)

\* The position of the only line of the kind.
IndexOfKind(lines, kind) == CHOOSE k \in DOMAIN lines : lines[k].kind = kind

\* The lines strictly between the lines of the kinds from and to; to the end
\* when to is "".
Between(lines, from, to) ==
    SubSeq(lines, IndexOfKind(lines, from) + 1,
           IF to = "" THEN Len(lines) ELSE IndexOfKind(lines, to) - 1)

RankingSegment(i) ==
    Between(SectionLines(i, i), "--- Ranking Changes ---", "--- Removed from Results ---")

RemovedSegment(i) == Between(SectionLines(i, i), "--- Removed from Results ---", "")

RowKinds == {"row new", "row new highlighted", "row unchanged", "row up", "row down"}

\* The item rows among the lines.
Rows(lines) == LET IsRow(l) == l.kind \in RowKinds IN SelectSeq(lines, IsRow)

\* The rank an item row prints for its item.
RowRank(l) == IF l.kind \in {"row up", "row down"} THEN l.n[2] ELSE l.n[1]

RanksOf(rows) == [k \in DOMAIN rows |-> RowRank(rows[k])]
TextOf(lines) == [k \in DOMAIN lines |-> lines[k].s]

\* The results of the list whose rank is in keep, in order.
RECURSIVE Keep(_, _)
Keep(results, keep) ==
    IF results = <<>> THEN <<>>
    ELSE (IF Head(results).Rank \in keep THEN <<Head(results)>> ELSE <<>>)
         \o Keep(Tail(results), keep)

\* The pairs FormatHistorical compares.
ComparedPairs == {i \in DOMAIN current : i <= Len(previous)}

\* The number of items the cap k lets through out of n.
Capped(k, n) == IF k > 0 THEN Min(k, n) ELSE n

\* The previous results of pair i whose uri occurs nowhere in the current list.
RemovedItems(i) ==
    Keep(previous[i].Results,
         {r \in 1..Len(previous[i].Results) :
              ~Occurs(previous[i].Results[r].URI, current[i].Results)})

\* C7: in every compared pair of FormatHistorical and for every
\* MaxRankDisplay, the rows of "Removed from Results" are exactly the
\* previous results whose uri is absent from the whole current list, one row
\* each and in the order of previous; "None" stands for no row; the number
\* of rows is the RemovedCount printed in the pair's statistics block.
C7_RemovedSectionExact ==
    pc = "historical formatted" =>
        \A i \in ComparedPairs :
            LET seg == RemovedSegment(i)
                rows == OfKind(seg, "row removed")
                removed == RemovedItems(i)
            IN /\ RanksOf(rows) = [k \in DOMAIN removed |-> removed[k].Rank]
               /\ TextOf(OfKind(seg, "URI")) = [k \in DOMAIN removed |-> removed[k].URI]
               /\ (Len(OfKind(seg, "None")) = 1) <=> (removed = <<>>)
               /\ Len(rows) = OfKind(SectionLines(i, i), "New|Removed")[1].n[2]

\* C7: the cap cut the Ranking Changes section short, a previous result is
\* still current below the cut, and another previous result was removed and
\* has its row.
C7_Witness ==
    /\ pc = "historical formatted"
    /\ \E i \in ComparedPairs :
          LET c == current[i].Results
              p == previous[i].Results
          IN /\ options.MaxRankDisplay > 0
             /\ options.MaxRankDisplay < Len(c)
             /\ \E r \in DOMAIN p : \E m \in DOMAIN c :
                    /\ m > options.MaxRankDisplay
                    /\ c[m].URI = p[r].URI
                    /\ \A d \in 1..options.MaxRankDisplay : c[d].URI # p[r].URI
             /\ Len(OfKind(RemovedSegment(i), "row removed")) = 1
             /\ Len(Rows(RankingSegment(i))) < Len(c)

\* The current result at rank r of pair i keeps the rank it had in previous.
KeepsRank(i, r) ==
    LET c == current[i].Results
        p == previous[i].Results
    IN Occurs(c[r].URI, p) /\ LastRank(c[r].URI, p) = c[r].Rank

\* The ranks of pair i the cap lets through.
Displayed(i) == 1..Capped(options.MaxRankDisplay, Len(current[i].Results))

\* C8 as stated: the Ranking Changes section of every pair has exactly
\* min(k, n) item rows when MaxRankDisplay = k > 0, and n rows when k <= 0,
\* whatever the other options are.
C8_RowsAlwaysMin ==
    pc = "historical formatted" =>
        \A i \in ComparedPairs :
            Len(Rows(RankingSegment(i))) = Cardinality(Displayed(i))

\* C8, amended: the Ranking Changes section of every pair has one row, in
\* order, for each of the first min(k, n) current results when
\* MaxRankDisplay = k > 0 and for each of the n when k <= 0, except that a
\* result that keeps its rank has a row only when ShowUnchanged is set; so
\* with ShowUnchanged set the rows are exactly min(k, n), or n, for every
\* HighlightNew and ShowScores.
C8_RowsUpToCap ==
    pc = "historical formatted" =>
        \A i \in ComparedPairs :
            LET rows == Rows(RankingSegment(i))
                shown == Keep(current[i].Results,
                              {r \in Displayed(i) :
                                   options.ShowUnchanged \/ ~KeepsRank(i, r)})
            IN /\ RanksOf(rows) = [k \in DOMAIN shown |-> shown[k].Rank]
               /\ options.ShowUnchanged => Len(rows) = Cardinality(Displayed(i))

\* C8: a list longer than the cap, cut to the cap, with a result that keeps
\* its rank above the cut and is rendered because ShowUnchanged is set.
C8_Witness ==
    /\ pc = "historical formatted"
    /\ options.ShowUnchanged
    /\ \E i \in ComparedPairs :
          /\ options.MaxRankDisplay > 0
          /\ options.MaxRankDisplay < Len(current[i].Results)
          /\ Len(Rows(RankingSegment(i))) = options.MaxRankDisplay
          /\ Len(OfKind(RankingSegment(i), "row unchanged")) = 1

\* The pairs FormatCrossQuery compares: i < j.
CrossPairs == {ij \in (DOMAIN current) \X (DOMAIN current) : ij[1] < ij[2]}

\* The results of q2 among its first min(cap, len(q2)) (all of them without
\* a cap) whose uri is not in q1.
OnlyIn2Expected(q1, q2) ==
    Keep(q2.Results,
         {r \in 1..Capped(options.MaxRankDisplay, Len(q2.Results)) :
              ~Occurs(q2.Results[r].URI, q1.Results)})

\* C9: in every pair section of the cross-query report the rows of "Results
\* Only in Query 2" are the results, not in q1, among the first
\* min(cap, len(q2)) results of q2 (all of q2 when MaxRankDisplay <= 0),
\* however many results q1 has; without a cap their number is the
\* "Only in Query 2" count of the statistics block.
C9_CapPerList ==
    pc = "cross formatted" =>
        \A ij \in CrossPairs :
            LET lines == SectionLines(ij[1], ij[2])
                rows == OfKind(lines, "row only in 2")
                expected == OnlyIn2Expected(current[ij[1]], current[ij[2]])
            IN /\ RanksOf(rows) = [k \in DOMAIN expected |-> expected[k].Rank]
               /\ options.MaxRankDisplay <= 0 =>
                     Len(rows) = OfKind(lines, "Only in Query 2")[1].n[1]

\* The texts of the "Query 1:" and "Query 2:" lines of the pair sections, in
\* the order of the report.
PairsEmitted ==
    LET q1s == OfKind(fmt.out, "Query 1")
        q2s == OfKind(fmt.out, "Query 2")
    IN [k \in DOMAIN q1s |-> <<q1s[k].s, q2s[k].s>>]

\* What a pair section's header prints for a query: its text, then its
\* algorithm in parentheses.
HeaderOf(q) == q.Query \o " (" \o q.Algorithm \o ")"

\* The index of the query of the current run that a header line names.
IndexOfQuery(text) == CHOOSE i \in DOMAIN current : HeaderOf(current[i]) = text

\* C10: for N >= 2 queries FormatCrossQuery writes N*(N-1)/2 pair sections;
\* each is headed by queries i and j of the run with i < j, the sections are
\* in increasing order of i and then j, so every pair i < j has its section
\* exactly once and no query is paired with itself.
C10_PairSections ==
    (pc = "cross formatted" /\ Len(current) >= 2) =>
        LET N == Len(current)
            names == {HeaderOf(current[i]) : i \in DOMAIN current}
            pairs == PairsEmitted
            At(k) == <<IndexOfQuery(pairs[k][1]), IndexOfQuery(pairs[k][2])>>
        IN /\ Len(OfKind(fmt.out, "Query 1")) = Len(OfKind(fmt.out, "Query 2"))
           /\ Len(pairs) = (N * (N - 1)) \div 2
           /\ \A k \in DOMAIN pairs :
                 /\ pairs[k][1] \in names
                 /\ pairs[k][2] \in names
                 /\ At(k)[1] < At(k)[2]
           /\ \A k \in DOMAIN pairs : k > 1 =>
                 \/ At(k - 1)[1] < At(k)[1]
                 \/ At(k - 1)[1] = At(k)[1] /\ At(k - 1)[2] < At(k)[2]
           /\ \A ij \in CrossPairs :
                 \E k \in DOMAIN pairs : At(k) = ij

\* C10: a run of MaxQueries queries was formatted: three sections or more,
\* the last one of the pair (N-1, N).
C10_Witness ==
    /\ pc = "cross formatted"
    /\ Len(current) >= 3
    /\ Len(PairsEmitted) >= 3
    /\ PairsEmitted[Len(PairsEmitted)]
         = <<HeaderOf(current[Len(current) - 1]), HeaderOf(current[Len(current)])>>

\* The line that follows the row at position k of the report, past the
\* row's score line when it has one; 0 when the report ends there.
AfterRow(k) ==
    LET n == IF k + 1 <= Len(fmt.out) /\ fmt.out[k + 1].kind = "score" THEN k + 2 ELSE k + 1
    IN IF n <= Len(fmt.out) THEN n ELSE 0

\* The row at position k is followed by a line that holds the uri.
RowCarries(k, uri) ==
    /\ AfterRow(k) # 0
    /\ fmt.out[AfterRow(k)].kind = "URI"
    /\ fmt.out[AfterRow(k)].s = uri

\* C11 as stated, for the historical report: every row of a new, improved,
\* worsened or unchanged current result and every row of a removed previous
\* result is followed by a line that holds the result's uri, under every
\* combination of options.
C11_EveryRowCarriesURI ==
    pc = "historical formatted" =>
        \A k \in DOMAIN fmt.out :
            LET l == fmt.out[k]
                i == l.sec[1]
            IN /\ l.kind \in RowKinds =>
                    RowCarries(k, current[i].Results[RowRank(l)].URI)
               /\ l.kind = "row removed" =>
                    RowCarries(k, previous[i].Results[RowRank(l)].URI)

\* C12 as stated: for two queries or more the report of FormatCrossQuery
\* ends, after the last pair section, with a summary that gives the number
\* of queries analyzed and the number of comparison pairs n*(n-1)/2.
C12_CrossSummaryAtEnd ==
    (pc = "cross formatted" /\ Len(current) >= 2) =>
        \E a, b \in DOMAIN fmt.out :
            /\ a < b
            /\ fmt.out[a].kind = "Total queries analyzed"
            /\ fmt.out[a].n = <<Len(current)>>
            /\ fmt.out[b].kind = "Comparison pairs"
            /\ fmt.out[b].n = <<(Len(current) * (Len(current) - 1)) \div 2>>
            /\ \A k \in DOMAIN fmt.out : fmt.out[k].sec # <<0, 0>> => k < a

\* ------------------------------------------- reading a generated report

\* Generate has returned.
Generated == pc \in {"generated", "generated and summarised"}

\* GetSummary has returned.
Summarised == pc \in {"summarised", "generated and summarised"}

\* The lines of the report that belong to the section of the pair (i, j).
ReportSection(report, i, j) ==
    LET InPair(l) == l.sec = <<i, j>> IN SelectSeq(report, InPair)

\* The header of the historical section of pair i: its lines before the
\* statistics block.
PairHeader(report, i) ==
    LET lines == ReportSection(report, i, i)
    IN SubSeq(lines, 1, IndexOfKind(lines, "Statistics") - 1)

\* The texts the lines hold.
Texts(lines) == {lines[k].s : k \in DOMAIN lines}

\* C13 as stated: in the historical report the header of every compared
\* pair shows the query text, both algorithms of the transition
\* (previous[i].Algorithm and current[i].Algorithm) and the description when
\* there is one.
C13_HeaderShowsTransition ==
    (Generated /\ mode = ModeHistorical /\ generated.err = "") =>
        \A i \in ComparedPairs :
            LET shown == Texts(PairHeader(generated.report, i))
            IN /\ current[i].Query \in shown
               /\ current[i].Algorithm \in shown
               /\ previous[i].Algorithm \in shown
               /\ current[i].Description # "" => current[i].Description \in shown

\* The figure the summary block of the report prints on its line of the kind.
Printed(report, kind) == OfKind(report, kind)[1].n[1]

\* C14 as stated: the "Total queries compared" figure of the historical
\* report is the number of pairs (current[i], previous[i]) that were
\* compared, the pairs whose counts make up the totals printed with it.
C14_TotalIsPairsCompared ==
    (Generated /\ mode = ModeHistorical /\ generated.err = "") =>
        Printed(generated.report, "Total queries compared") = Cardinality(ComparedPairs)

\* The sum of the field of the CalculateHistorical statistics over the
\* index-aligned pairs in the set.
RECURSIVE SumOfPairs(_, _)
SumOfPairs(pairs, field) ==
    IF pairs = {} THEN 0
    ELSE LET i == CHOOSE i \in pairs : TRUE
         IN CalculateHistorical(current[i], previous[i])[field]
            + SumOfPairs(pairs \ {i}, field)

\* C15: in historical mode GetSummary returns the sums of the
\* CalculateHistorical statistics over the pairs (current[i], previous[i])
\* with i < min(len(current), len(previous)); they are the four totals in
\* the summary block of the report Generate returns for the same
\* Comparison, whether GetSummary was called before, after or without
\* Generate; in cross-query mode the four are 0.
C15_SummaryIsSumOfPairs ==
    Summarised =>
        /\ mode = ModeHistorical =>
              /\ summary.NewResults = SumOfPairs(ComparedPairs, "NewResults")
              /\ summary.RemovedResults = SumOfPairs(ComparedPairs, "RemovedCount")
              /\ summary.ImprovedRankings = SumOfPairs(ComparedPairs, "ImprovedCount")
              /\ summary.WorsenedRankings = SumOfPairs(ComparedPairs, "WorsedCount")
        /\ (mode = ModeHistorical /\ Generated /\ generated.err = "") =>
              /\ summary.NewResults = Printed(generated.report, "Total new results")
              /\ summary.RemovedResults = Printed(generated.report, "Total removed results")
              /\ summary.ImprovedRankings
                   = Printed(generated.report, "Total improved rankings")
              /\ summary.WorsenedRankings
                   = Printed(generated.report, "Total worsened rankings")
        /\ mode = ModeCrossQuery =>
              summary = Summary("Cross-Query", 0, 0, 0, 0)

\* C15: both calls were made on a historical Comparison of three current
\* and two previous queries, and each of the four totals counts something.
C15_Witness ==
    /\ pc = "generated and summarised"
    /\ mode = ModeHistorical
    /\ generated.err = ""
    /\ Len(current) > Len(previous)
    /\ Len(previous) >= 2
    /\ summary.NewResults >= 2
    /\ summary.RemovedResults >= 2
    /\ summary.ImprovedRankings >= 1
    /\ summary.WorsenedRankings >= 1

\* C16: Generate in historical mode without a previous result set returns
\* an error and the empty report, and the formatter's buffer is still empty
\* when it returns: nothing was written before the error.
C16_NoPreviousIsAnError ==
    (Generated /\ mode = ModeHistorical /\ Len(previous) = 0) =>
        /\ generated.err = "no previous results to compare against"
        /\ generated.report = <<>>
        /\ generated.buf = <<>>

\* C16: a historical Comparison of two current queries or more and no
\* previous run was generated.
C16_Witness ==
    /\ Generated
    /\ mode = ModeHistorical
    /\ previous = <<>>
    /\ Len(current) >= 2
    /\ generated.err # ""

\* C17 as stated: in every mode Generate fails for an empty current result
\* set; it returns an error and no report.
C17_EmptyCurrentIsAnError ==
    (Generated /\ Len(current) = 0) =>
        /\ generated.err # ""
        /\ generated.report = <<>>

\* The position of the first line of the kind.
FirstOfKind(lines, kind) ==
    CHOOSE k \in DOMAIN lines :
        /\ lines[k].kind = kind
        /\ \A j \in 1..(k - 1) : lines[j].kind # kind

\* The combined report, cut at its landmarks: the lines between the rule
\* that closes the historical heading and the blank line that opens the
\* divider, and the lines after the rule that closes the cross-query heading.
HistoricalPart(report) ==
    SubSeq(report, IndexOfKind(report, "HISTORICAL COMPARISON") + 2,
           FirstOfKind(report, "divider") - 2)

CrossQueryPart(report) ==
    SubSeq(report, IndexOfKind(report, "CROSS-QUERY COMPARISON") + 2, Len(report))

\* C18: in both mode without a previous result set Generate does not fail;
\* its report is the historical heading, the statement that no previous
\* results are available, the divider, the cross-query heading and the whole
\* cross-query report of the current run.  With a previous result set a
\* report that is returned holds the whole historical report before the
\* divider and the whole cross-query report after it.
C18_BothWithoutPrevious ==
    (Generated /\ mode = ModeBoth /\ (Len(previous) = 0 \/ generated.err = "")) =>
        LET r == generated.report
        IN /\ generated.err = ""
           /\ IndexOfKind(r, "HISTORICAL COMPARISON") = 2
           /\ FirstOfKind(r, "divider") < IndexOfKind(r, "CROSS-QUERY COMPARISON")
           /\ Len(OfKind(r, "divider")) = 2
           /\ HistoricalPart(r)
                = IF Len(previous) = 0
                  THEN <<Line("No previous results available for historical comparison.",
                              "", <<>>)>>
                  ELSE FormatHistorical(NewFormatter(options, 0), current, previous).out
           /\ CrossQueryPart(r) = FormatCrossQuery(NewFormatter(options, 0), current).out
           /\ Len(current) >= 2 =>
                 Len(OfKind(CrossQueryPart(r), "Query 1"))
                   = (Len(current) * (Len(current) - 1)) \div 2

\* C18: a Comparison of three queries and no previous run was generated in
\* both mode; the report states that and holds the three pair sections.
C18_Witness ==
    /\ Generated
    /\ mode = ModeBoth
    /\ previous = <<>>
    /\ Len(current) >= 3
    /\ generated.err = ""
    /\ Len(OfKind(generated.report,
                  "No previous results available for historical comparison.")) = 1
    /\ Len(OfKind(generated.report, "Query 1")) >= 3

\* C19: FormatCrossQuery called with no query or with one writes the
\* warning line and nothing else (no "Generated" header, no pair section,
\* no statistics) and returns no error.
C19_TooFewQueriesWarns ==
    (pc = "cross formatted" /\ Len(current) < 2) =>
        /\ fmt.err = ""
        /\ fmt.writes = 1
        /\ fmt.out = <<Line("warning: need at least 2 queries", "", <<>>)>>

\* C19: FormatCrossQuery was called with one query that has results.
C19_Witness ==
    /\ pc = "cross formatted"
    /\ Len(current) = 1
    /\ Len(current[1].Results) > 0
    /\ Len(fmt.out) = 1

\* ------------------------------------------- reading the command's result

\* runCompare has returned, on a disk where it found its configuration, found
\* and read the latest run and could write to the run folder.
Compared ==
    pc = "compared" /\ disk.config /\ disk.latest /\ disk.readable /\ disk.writable

\* The mode the --mode flag asks for.
ModeAsked == parseComparisonMode(flags.compareMode)

\* No --with was given and no older run was found (asked for in historical
\* and both mode): compareWith is still empty after the search.
NoPreviousFound ==
    ModeAsked # ModeCrossQuery /\ flags.compareWith = "" /\ ~disk.previous

\* The results of a previous run were loaded and hold a query or more.
PreviousLoadedSome ==
    /\ ModeAsked # ModeCrossQuery
    /\ flags.compareWith \notin {"", MissingPath}
    /\ Len(previous) > 0

\* The results of a previous run were loaded and hold no query.
PreviousLoadedEmpty ==
    /\ ModeAsked # ModeCrossQuery
    /\ flags.compareWith \notin {"", MissingPath}
    /\ Len(previous) = 0

\* The command wrote the report file of that name.
Wrote(name) == \E file \in files : file.name = name

ComparedAt(i) == \E k \in DOMAIN fmt.out :
                    fmt.out[k].sec = <<i, i>> /\ fmt.out[k].kind = "Statistics"

\* C21: every pair the historical comparison compares is the current and
\* the previous result of the same query and algorithm, for two runs of one
\* query configuration by RunAlgorithms, whichever searches failed.
C21_PairsOfSameSlot ==
    pc = "runs formatted" =>
        \A i \in DOMAIN current :
            ComparedAt(i) =>
                /\ i <= Len(previous)
                /\ current[i].Query = previous[i].Query
                /\ current[i].Algorithm = previous[i].Algorithm

\* ---------------------------------------- indices without a previous

\* The historical part of the report Generate returned was formatted from a
\* current and a previous run that both hold a query.
HistoricalFormatted ==
    /\ Generated
    /\ mode \in {ModeHistorical, ModeBoth}
    /\ Len(current) > 0
    /\ Len(previous) > 0

\* The position of the first line of the kind in the report.
PositionOf(report, kind) ==
    CHOOSE k \in DOMAIN report :
        report[k].kind = kind /\ \A m \in 1..(k - 1) : report[m].kind # kind

\* C22: for every index i of current past the end of previous the report
\* holds exactly one line for that index, the informational line naming
\* query i, and no header, statistics, ranking or removed section; every
\* index that has a previous still gets its section, and the summary block
\* is written once, after the lines of every index.
C22_InfoLineForUnpaired ==
    HistoricalFormatted =>
        /\ generated.err = ""
        /\ \A i \in DOMAIN current :
              IF i > Len(previous)
              THEN ReportSection(generated.report, i, i) =
                      <<[kind |-> "[INFO] not in previous", s |-> "", n |-> <<i>>,
                         sec |-> <<i, i>>]>>
              ELSE Len(OfKind(ReportSection(generated.report, i, i), "Statistics")) = 1
        /\ Len(OfKind(generated.report, "Historical Comparison Summary")) = 1
        /\ \A k \in DOMAIN generated.report :
              generated.report[k].sec[1] = generated.report[k].sec[2]
              /\ generated.report[k].sec[1] > 0
              => k < PositionOf(generated.report, "Historical Comparison Summary")

\* C22: the current run holds three queries and the previous run one; the
\* report holds the informational lines of the queries 2 and 3.
C22_Witness ==
    /\ HistoricalFormatted
    /\ Len(current) = 3
    /\ Len(previous) = 1
    /\ Len(OfKind(generated.report, "[INFO] not in previous")) = 2

\* ------------------------------------------------ a uri that occurs twice

\* The class the calculator gives the current item r: the count that one
\* iteration of its loop raises.
CalculatorClass(r, prevMap) ==
    LET acc == HistStep(HistStart(NoQuery), r, prevMap)
    IN IF acc.NewResults = 1 THEN "new"
       ELSE IF acc.UnchangedCount = 1 THEN "unchanged"
       ELSE IF acc.ImprovedCount = 1 THEN "improved"
       ELSE "worsened"

\* The class the formatter gives the current item r: the row it writes for
\* the change determineRankingChange returns.
FormatterClass(r, prevMap) ==
    LET change == determineRankingChange(r, prevMap)
    IN IF change.IsNew THEN "new"
       ELSE IF change.IsUnchanged THEN "unchanged"
       ELSE IF getRankChangeIndicators(change.PrevRank - change.Rank) = "up" THEN "improved"
       ELSE "worsened"

\* The sum of |rank - rank of the last result of the same uri in q| over the
\* items.
RECURSIVE SumRankDiff(_, _, _)
SumRankDiff(items, c, q) ==
    IF items = {} THEN 0
    ELSE LET i == CHOOSE i \in items : TRUE
         IN Abs(c[i].Rank - LastRank(c[i].URI, q)) + SumRankDiff(items \ {i}, c, q)

\* C23: the lookup built from a list holds, for every uri of the list, the
\* last result that carries it; CalculateHistorical and CalculateCrossQuery
\* count and average with the rank of that last result, the formatter shows
\* it as the previous rank, and the calculator and the formatter give every
\* current item the same class.
C23_LaterOccurrenceWins ==
    CrossDone =>
        LET c == curr.Results
            p == prev.Results
            pMap == makeURIMap(p)
            common == MatchedItems(c, p)
            differing == {i \in common : c[i].Rank # LastRank(c[i].URI, p)}
        IN /\ DOMAIN pMap = makeURISet(p)
           /\ \A u \in DOMAIN pMap : pMap[u].Rank = LastRank(u, p)
           /\ \A i \in DOMAIN c :
                 /\ CalculatorClass(c[i], pMap) = FormatterClass(c[i], pMap)
                 /\ i \in differing =>
                       determineRankingChange(c[i], pMap).PrevRank = LastRank(c[i].URI, p)
           /\ hist.ImprovedCount =
                 Cardinality({i \in DOMAIN c : FormatterClass(c[i], pMap) = "improved"})
           /\ hist.WorsedCount =
                 Cardinality({i \in DOMAIN c : FormatterClass(c[i], pMap) = "worsened"})
           /\ hist.UnchangedCount =
                 Cardinality({i \in DOMAIN c : FormatterClass(c[i], pMap) = "unchanged"})
           /\ hist.AvgRankChange = HistAvg(SumRankDiff(common, c, p), curr)
           /\ cross.CommonResults = Cardinality(common)
           /\ cross.RankingDiffCount = Cardinality(differing)
           /\ cross.AvgRankingDiff =
                 CrossAvg(SumRankDiff(differing, c, p), Cardinality(differing))

\* C23: the previous list is [/a, /b, /a] and the current list [/a]: by the
\* last /a (rank 3) the current /a has improved by 2, by the first it would
\* be unchanged.
C23_Witness ==
    /\ CrossDone
    /\ [k \in DOMAIN prev.Results |-> prev.Results[k].URI] = <<"/a", "/b", "/a">>
    /\ [i \in DOMAIN curr.Results |-> curr.Results[i].URI] = <<"/a">>
    /\ hist.ImprovedCount = 1
    /\ hist.UnchangedCount = 0
    /\ cross.RankingDiffCount = 1
    /\ cross.AvgRankingDiff = FloatDiv(2, 1)

\* ------------------------------------------------- a write that fails

\* What the call that left fmt writes on a writer that never fails.
OnGoodWriter ==
    IF pc = "historical formatted"
    THEN FormatHistorical(NewFormatter(options, 0), current, previous)
    ELSE FormatCrossQuery(NewFormatter(options, 0), current)

\* The formatter call has returned and the write that was to fail was made.
WriteFailed ==
    /\ pc \in {"historical formatted", "cross formatted"}
    /\ fmt.failAt >= 1
    /\ fmt.failAt <= OnGoodWriter.writes

\* C24: when a write fails FormatHistorical and FormatCrossQuery return an
\* error and attempt no write after the failed one: the writer holds the
\* lines written before it, nothing else.  A call none of whose writes
\* fails returns what it returns on a good writer.  Comparison.Generate
\* returns the empty report with every error, never a part of a report.
C24_FailedWriteStopsReport ==
    /\ WriteFailed =>
          /\ fmt.err # ""
          /\ fmt.writes = fmt.failAt
          /\ fmt.out = SubSeq(OnGoodWriter.out, 1, fmt.failAt - 1)
    /\ (pc \in {"historical formatted", "cross formatted"} /\ ~WriteFailed) =>
          /\ fmt.err = OnGoodWriter.err
          /\ fmt.out = OnGoodWriter.out
    /\ Generated =>
          /\ generated.err # "" => generated.report = <<>>
          /\ generated.err = "" => generated.report = generated.buf

\* C24: a write of the summary block of a historical report over two pairs
\* failed, after the sections of both pairs were written: the error is
\* returned and the writer holds every line but the summary's last ones.
C24_Witness ==
    /\ pc = "historical formatted"
    /\ WriteFailed
    /\ Len(current) = 2
    /\ fmt.err # ""
    /\ Len(fmt.out) = fmt.failAt - 1
    /\ Len(OfKind(fmt.out, "Historical Comparison Summary")) = 1
    /\ Len(OfKind(fmt.out, "Total worsened rankings")) = 0

\* ------------------------------------------------- lists that share no uri

\* The result list of the uris, as Execute builds it.
ListOf(uris) == QueryResults("q", "alg", "", ExecuteResults(uris, ZeroScores(Len(uris))))

\* C25: for two lists that share no uri CalculateCrossQuery returns
\* CommonResults = 0, OnlyInQuery1 = len(q1), OnlyInQuery2 = len(q2) and
\* RankingDiffCount = 0, as for three uris against four others; for any two
\* lists CommonResults + OnlyInQuery1 = len(q1) and RankingDiffCount is at
\* most CommonResults.
C25_DisjointLists ==
    /\ CrossDone =>
          /\ cross.CommonResults + cross.OnlyInQuery1 = Len(curr.Results)
          /\ cross.RankingDiffCount <= cross.CommonResults
          /\ makeURISet(curr.Results) \cap makeURISet(prev.Results) = {} =>
                /\ cross.CommonResults = 0
                /\ cross.OnlyInQuery1 = Len(curr.Results)
                /\ cross.OnlyInQuery2 = Len(prev.Results)
                /\ cross.RankingDiffCount = 0
    /\ LET stats == CalculateCrossQuery(ListOf(<<"/a", "/b", "/c">>),
                                        ListOf(<<"/d", "/e", "/f", "/g">>))
       IN /\ stats.CommonResults = 0
          /\ stats.OnlyInQuery1 = 3
          /\ stats.OnlyInQuery2 = 4
          /\ stats.RankingDiffCount = 0

\* C25: CalculateCrossQuery has compared [/a, /b] with [/c].
C25_Witness ==
    /\ CrossDone
    /\ makeURISet(curr.Results) = {"/a", "/b"}
    /\ makeURISet(prev.Results) = {"/c"}
    /\ Len(curr.Results) = 2
    /\ cross.OnlyInQuery1 = 2
    /\ cross.OnlyInQuery2 = 1

\* ------------------------------------------- the two orders of a pair

\* Both CalculateCrossQuery(curr, prev) and CalculateCrossQuery(prev, curr)
\* have returned.
BothOrdersDone == pc \in {"cross swapped", "done"}

\* C30: for two lists neither of which repeats a uri, CalculateCrossQuery
\* returns the same CommonResults, RankingDiffCount and AvgRankingDiff in
\* both orders of the lists, and OnlyInQuery1 of either order is
\* OnlyInQuery2 of the other.
C30_CrossQuerySymmetry ==
    (BothOrdersDone /\ ~Repeats(curr.Results) /\ ~Repeats(prev.Results)) =>
        /\ cross.CommonResults = crossSwapped.CommonResults
        /\ cross.RankingDiffCount = crossSwapped.RankingDiffCount
        /\ cross.AvgRankingDiff = crossSwapped.AvgRankingDiff
        /\ cross.OnlyInQuery1 = crossSwapped.OnlyInQuery2
        /\ cross.OnlyInQuery2 = crossSwapped.OnlyInQuery1

\* C30: [/a, /b, /c] and [/c, /a] were compared in both orders: two common
\* results, both at different ranks, one result only in the longer list.
C30_Witness ==
    /\ BothOrdersDone
    /\ [i \in DOMAIN curr.Results |-> curr.Results[i].URI] = <<"/a", "/b", "/c">>
    /\ [k \in DOMAIN prev.Results |-> prev.Results[k].URI] = <<"/c", "/a">>
    /\ cross.CommonResults = 2
    /\ cross.RankingDiffCount = 2
    /\ cross.AvgRankingDiff = FloatDiv(3, 2)
    /\ crossSwapped.OnlyInQuery2 = 1

\* ------------------------------------------------- calls on one calculator

SavedAndLoaded == pc = "loaded" /\ saved = "" /\ loaded.path = "index.json"

\* The string with every byte that is no valid UTF-8 replaced by U+FFFD.
Coerced(str) == [k \in DOMAIN str |-> IF str[k] < 0 THEN Rune.Replacement ELSE str[k]]

\* The document with every string coerced.
CoercedDocument(d) ==
    Document(Coerced(d.ID), Coerced(d.Title), Coerced(d.URI), Coerced(d.Body),
             Coerced(d.ContentType), Coerced(d.Date))

\* Every string of the index is valid UTF-8.
ValidStrings ==
    /\ \A k \in DOMAIN index.SourceIndex : index.SourceIndex[k] >= 0
    /\ \A i \in DOMAIN index.Documents :
          \A k \in DOMAIN index.Documents[i].Title :
              index.Documents[i].Title[k] >= 0

\* C27 as stated: the index loaded from index.json has the SourceIndex and
\* the documents (count, order, field values) of the index saved.
C27_RoundTripAnyIndex ==
    SavedAndLoaded =>
        /\ loaded.err = ""
        /\ loaded.index.SourceIndex = index.SourceIndex
        /\ loaded.index.Documents = index.Documents

\* C27, amended: the load succeeds and returns as many documents, in the
\* same order; SourceIndex and every document field are the saved strings
\* with each byte that is no valid UTF-8 replaced by U+FFFD, so they are the
\* saved values when every string of the index is valid UTF-8.
C27_RoundTripValidStrings ==
    SavedAndLoaded =>
        /\ loaded.err = ""
        /\ loaded.index.SourceIndex = Coerced(index.SourceIndex)
        /\ Len(loaded.index.Documents) = Len(index.Documents)
        /\ \A i \in DOMAIN index.Documents :
              loaded.index.Documents[i] = CoercedDocument(index.Documents[i])
        /\ ValidStrings =>
              /\ loaded.index.SourceIndex = index.SourceIndex
              /\ loaded.index.Documents = index.Documents

\* C27: an index of two documents whose title holds a line feed and a
\* less-than sign, from a source index whose name is a quotation mark, was
\* saved and loaded.
C27_Witness ==
    /\ SavedAndLoaded
    /\ ValidStrings
    /\ Len(index.Documents) = 2
    /\ index.Documents[1].Title = <<Rune.LineFeed, Rune.LessThan>>
    /\ index.SourceIndex = <<Rune.Quote>>
    /\ loaded.index.Documents[2].Title = <<Rune.LineFeed, Rune.LessThan>>

\* ------------------------------------------------- the legacy report

\* C28: in every compared pair of the legacy report and for every
\* MaxRankDisplay, the rows of "Removed from Results" are exactly the
\* previous results whose uri is absent from the current list, one row each
\* in the order of previous, so the number of rows is the RemovedCount of
\* the pair's statistics block and no result still in current has a row.
C28_LegacyRemovedExact ==
    (pc = "legacy report" /\ fmt.failAt = 0) =>
        \A i \in ComparedPairs :
            LET seg == RemovedSegment(i)
                rows == OfKind(seg, "row removed")
                removed == RemovedItems(i)
            IN /\ TextOf(OfKind(seg, "URI")) = [k \in DOMAIN removed |-> removed[k].URI]
               /\ RanksOf(rows) = [k \in DOMAIN removed |-> removed[k].Rank]
               /\ Len(rows) = OfKind(SectionLines(i, i), "New|Removed")[1].n[2]
               /\ \A k \in DOMAIN rows :
                     ~Occurs(OfKind(seg, "URI")[k].s, current[i].Results)

\* ------------------------------------------------- the spinner's last output

\* Stop has received its rendezvous on the done channel.
Released == caller \in {"Stop: clear", "returned"}

\* The output is a frame of the animation.
IsFrame(text) == Len(text) = 4 /\ \E k \in DOMAIN Frames : text[2] = Frames[k]

\* C29: once Stop is called on a spinner started once, Stop returns and the
\* goroutine of Start terminates; after Stop's send on the done channel has
\* been received the goroutine has returned and nothing but Stop's line clear
\* is printed, so the line clear is the last output on the terminal.
C29_StopEndsTheAnimation ==
    /\ (caller = "Stop: active") ~> (caller = "returned" /\ animation.pc = "returned")
    /\ [](Released => animation.pc = "returned")
    /\ [](caller = "returned" => terminal[Len(terminal)] = ClearLine)
    /\ [][(Released /\ terminal' # terminal) =>
             (terminal' = Stdout(terminal, ClearLine) /\ caller' = "returned")]_vars
    /\ [][caller = "returned" => terminal' = terminal]_vars

\* Frames were printed, Stop has cleared the line and returned, and the
\* goroutine is gone.
C29_Witness ==
    /\ caller = "returned"
    /\ animation.pc = "returned"
    /\ Len(terminal) >= 2
    /\ IsFrame(terminal[Len(terminal) - 1])
    /\ terminal[Len(terminal)] = ClearLine

====
